---- MODULE Spec2Model ----
(***************************************************************************)
(* Log ingestion-and-insight pipeline of Intelligent_Log_Insights.         *)
(*                                                                         *)
(*   AzureFunctions/Triggers/queue_trigger.py   handle_message: enrich one *)
(*       queue message and upsert it into the log container (LogsStored)   *)
(*   AzureFunctions/Triggers/cosmos_trigger.py  handle_cosmos_changes:     *)
(*       aggregate one change-feed batch into one insight document         *)
(*   AzureFunctions/function_app.py             the two trigger wrappers   *)
(*                                                                         *)
(* Python values are tagged records: [t |-> "none" | "str" | "int" |       *)
(* "list", s |-> str(value) as a tuple of characters] and                  *)
(* [t |-> "dict", d |-> <<key, value>> pairs in insertion order].          *)
(* Strings are tuples of one-character strings so that lower(), slicing    *)
(* and the substring test are computed, not assumed.                       *)
(***************************************************************************)
EXTENDS Integers, Sequences, FiniteSets, TLC

VARIABLES
    COSMOS_CONN,     \* COSMOS_CONN of both triggers: TRUE iff COSMOSDB_CONN_STRING is set
    _container,      \* queue_trigger._container: "unset" or "LogsStored"
    store,           \* documents of the LogsStored container, in insertion order
    urandom,         \* number of os.urandom tokens drawn so far
    qpc,             \* position of the queue handler: "idle" or "upsert" (inside _safe_upsert)
    msg,             \* the message of the current / last process_log_message call
    enriched_log,    \* handle_message's enriched_log of the current / last call
    attempts,        \* store responses to the upsert attempts of the current / last call
    qresult,         \* how the last process_log_message call ended: "none", "returned", "raised"
    deliveries,      \* number of queue deliveries so far
    insights,        \* documents of the TriggerInsights container, in insertion order
    documents,       \* the change-feed batch being collected, then the batch of the last aggregation call
    iterable,        \* how that batch was passed: "list" (re-iterable) or "generator" (one-shot)
    cresult,         \* how the last handle_cosmos_changes call ended: "none" (not called), "returned", "raised"
    presult,         \* how the last process_cosmos_changes call ended: "none" (not called), "returned", "raised"
    counts,          \* the counters of the last aggregation call when its counting loop ended
    upsert_response, \* the store's answer to the insight upsert of the last call, "none" if it made none
    written,         \* number of insight documents the last aggregation call upserted
    runs,            \* number of aggregation calls so far
    history_file,    \* search_results.json (HISTORY_PATH): absent, unparsable, or the JSON value it holds
    entry,           \* <<e>> for the argument e of the last save_history call, <<>> before the first
    appended,        \* per category, the entries save_history was called with so far, in call order
    clock,           \* datetime.now(timezone.utc), in seconds
    logs_container,  \* cosmos_client.logs_container: its items, oldest first, each with its _ts
    insights_container, \* cosmos_client.insights_container: its items, oldest first, each with its _ts
    CACHE,           \* intelligent_search.CACHE; last_refresh is <<>> for None, <<t>> for a time
    rcall,           \* <<r>> for the last refresh_cache call, <<>> before the first
    model,           \* intelligent_search.model: TRUE iff the SentenceTransformer was loaded
    scall,           \* <<c>> for the last intelligent_search call, <<>> before the first
    hcall,           \* <<c>> for the last GET /health request, <<>> before the first
    _cosmos_lock,    \* queue_trigger._cosmos_lock: 0 when free, else the worker holding it
    _cosmos_client,  \* queue_trigger._cosmos_client: 0 for None, else the number of the client
    _db,             \* queue_trigger._db: 0 for None, else the number of the client it belongs to
    handle,          \* the number of the client behind _container, 0 while _container is None
    clients,         \* number of CosmosClient objects constructed so far
    wpc,             \* per worker, the line of _get_container it is at ("idle", "done")
    wresult,         \* per worker, how its _get_container call ended and what it returned
    heap,            \* the dict objects CACHE was ever bound to, in creation order
    cache_at,        \* the place in heap of the dict the global CACHE is bound to
    fetches,         \* number of refreshes so far: fetched lists that were put into CACHE
    tpc,             \* per API thread, the line it is at ("idle", "done")
    tlocal,          \* per API thread, its call and the local variables of the call
    save_pc,         \* per saving thread, the line of save_history it is at ("idle", "done")
    save_local       \* per saving thread, the entry it saves and the file content its load_history read

qvars == <<COSMOS_CONN, _container, store, urandom, qpc, msg, enriched_log, attempts, qresult, deliveries>>
cvars == <<insights, documents, iterable, cresult, presult, counts, upsert_response, written, runs>>
hvars == <<history_file, entry, appended>>
avars == <<clock, logs_container, insights_container, CACHE, rcall>>
evars == <<model, scall>>
mvars == <<hcall>>
wvars == <<_cosmos_lock, _cosmos_client, _db, handle, clients, wpc, wresult>>
tvars == <<heap, cache_at, fetches, tpc, tlocal>>
kvars == <<save_pc, save_local>>
ovars == <<mvars, wvars, tvars, kvars>>
svars == <<hvars, avars, evars, ovars>>
vars == <<COSMOS_CONN, _container, store, urandom, qpc, msg, enriched_log, attempts, qresult, deliveries,
          insights, documents, iterable, cresult, presult, counts, upsert_response, written, runs,
          history_file, entry, appended,
          clock, logs_container, insights_container, CACHE, rcall, model, scall,
          hcall, _cosmos_lock, _cosmos_client, _db, handle, clients, wpc, wresult,
          heap, cache_at, fetches, tpc, tlocal, save_pc, save_local>>

----------------------------------------------------------------------------
(* Bounds *)

MaxDeliveries == 3
MaxRuns == 1
MaxBatch == 2
MaxErrors == 67
MaxOthers == 602
MaxTopBatch == 4
MaxSaves == 12
MaxClock == 19
MaxStored == 1
MaxLogs == 2
MaxSnapshots == 4
MaxWords == 2
MaxLastN == 2
MaxHealthSnapshots == 3
MaxWorkers == 3
MaxThreads == 2
MaxSavers == 2

----------------------------------------------------------------------------
(* Python strings *)

UpperChars == <<"A", "B", "C", "D", "E", "F", "G", "H", "I", "J", "K", "L", "M", "N", "O", "P", "Q", "R", "S", "T", "U", "V", "W", "X", "Y", "Z">>
LowerChars == <<"a", "b", "c", "d", "e", "f", "g", "h", "i", "j", "k", "l", "m", "n", "o", "p", "q", "r", "s", "t", "u", "v", "w", "x", "y", "z">>
DigitChars == <<"0", "1", "2", "3", "4", "5", "6", "7", "8", "9">>

LowerChar(c) ==
    IF \E i \in DOMAIN UpperChars : UpperChars[i] = c
    THEN LowerChars[CHOOSE i \in DOMAIN UpperChars : UpperChars[i] = c]
    ELSE c

\* str.lower()
Lower(s) == [i \in DOMAIN s |-> LowerChar(s[i])]

\* sub in s
Contains(s, sub) ==
    \E i \in 1..(Len(s) - Len(sub) + 1) : SubSeq(s, i, i + Len(sub) - 1) = sub

\* str.strip() == "" for the characters the model uses
IsBlank(s) == \A i \in DOMAIN s : s[i] = " "

\* s[:n]
Prefix(s, n) == SubSeq(s, 1, IF Len(s) < n THEN Len(s) ELSE n)

s_id == <<"i", "d">>
s_AppName == <<"A", "p", "p", "N", "a", "m", "e">>
s_Level == <<"L", "e", "v", "e", "l">>
s_Message == <<"M", "e", "s", "s", "a", "g", "e">>
s_Severity == <<"S", "e", "v", "e", "r", "i", "t", "y">>
s_OriginalPayload == <<"O", "r", "i", "g", "i", "n", "a", "l", "P", "a", "y", "l", "o", "a", "d">>
s_Unknown == <<"U", "n", "k", "n", "o", "w", "n">>
s_Information == <<"I", "n", "f", "o", "r", "m", "a", "t", "i", "o", "n">>
s_error == <<"e", "r", "r", "o", "r">>
s_warn == <<"w", "a", "r", "n">>
s_Timestamp == <<"T", "i", "m", "e", "s", "t", "a", "m", "p">>

----------------------------------------------------------------------------
(* Python values *)

None == [t |-> "none", s |-> <<"N", "o", "n", "e">>]
Str(s) == [t |-> "str", s |-> s]
Dict(d) == [t |-> "dict", d |-> d]
IsDict(v) == v.t = "dict"

\* bool(v)
Truthy(v) ==
    CASE v.t = "none" -> FALSE
      [] v.t = "str" -> v.s # <<>>
      [] v.t = "int" -> v.s # <<"0">>
      [] v.t = "list" -> v.s # <<"[", "]">>
      [] v.t = "dict" -> v.d # <<>>

RECURSIVE PyRepr(_)
RECURSIVE ReprItems(_)
\* repr(v)
PyRepr(v) ==
    CASE v.t = "str" -> <<"'">> \o v.s \o <<"'">>
      [] v.t = "dict" -> <<"{">> \o ReprItems(v.d) \o <<"}">>
      [] OTHER -> v.s
ReprItems(d) ==
    IF d = <<>> THEN <<>>
    ELSE PyRepr(d[1][1]) \o <<":", " ">> \o PyRepr(d[1][2])
         \o (IF Len(d) > 1 THEN <<",", " ">> ELSE <<>>) \o ReprItems(Tail(d))

\* str(v)
PyStr(v) == IF v.t = "str" THEN v.s ELSE PyRepr(v)

\* d[k] = v on a dict held as <<key, value>> pairs: replace in place, else append
DictSet(d, k, v) ==
    IF \E i \in DOMAIN d : d[i][1] = k
    THEN [i \in DOMAIN d |-> IF d[i][1] = k THEN <<k, v>> ELSE d[i]]
    ELSE Append(d, <<k, v>>)

\* d.get(k)
DictGet(d, k) ==
    IF \E i \in DOMAIN d : d[i][1] = k
    THEN d[CHOOSE i \in DOMAIN d : d[i][1] = k][2]
    ELSE None

RECURSIVE LoweredFrom(_, _)
\* {k.lower(): v for k, v in obj.items()}, the keys being strings
LoweredFrom(d, acc) ==
    IF d = <<>> THEN acc
    ELSE LoweredFrom(Tail(d), DictSet(acc, Str(Lower(d[1][1].s)), d[1][2]))
Lowered(d) == LoweredFrom(d, <<>>)

RECURSIVE FirstPresent(_, _, _)
\* for c in candidates: v = lowered.get(c.lower()); if v is not None: return v
FirstPresent(lowered, candidates, default) ==
    IF candidates = <<>> THEN default
    ELSE LET v == DictGet(lowered, Str(Lower(candidates[1])))
         IN IF v # None THEN v ELSE FirstPresent(lowered, Tail(candidates), default)

----------------------------------------------------------------------------
(* queue_trigger.py *)

_get_value_flex(obj, candidates, default) ==
    IF ~IsDict(obj) THEN default
    ELSE FirstPresent(Lowered(obj.d), candidates, default)

\* json.loads(s), then json.loads(s.replace("'", '"')), then {"raw": s}.
\* A message body is [parse |-> "json" | "quoted" | "text", value, text]:
\* "json" parses at once to value, "quoted" parses to value after the quote
\* replacement, "text" parses neither way.
_safe_json_load(body) ==
    IF body.parse \in {"json", "quoted"} THEN body.value
    ELSE Dict(<< <<Str(<<"r", "a", "w">>), Str(body.text)>> >>)

\* Unwrap common envelope shapes
Unwrap(payload) ==
    IF /\ IsDict(payload)
       /\ Len(payload.d) = 1
       /\ Lower(payload.d[1][1].s) \in {<<"m", "e", "s", "s", "a", "g", "e">>, <<"b", "o", "d", "y">>, <<"d", "a", "t", "a">>}
       /\ IsDict(payload.d[1][2])
    THEN payload.d[1][2]
    ELSE payload

\* the level compared without lower-casing it
SeverityOfCaseSensitive(level) ==
    IF Contains(PyStr(level), s_error) THEN Str(<<"H", "i", "g", "h">>)
    ELSE IF Contains(PyStr(level), s_warn) THEN Str(<<"M", "e", "d", "i", "u", "m">>)
    ELSE Str(<<"L", "o", "w">>)

\* severity = "High" if "error" in lvl else "Medium" if "warn" in lvl else "Low"
SeverityOf(level) ==
    LET lvl == Lower(PyStr(level))
    IN IF Contains(lvl, s_error) THEN Str(<<"H", "i", "g", "h">>)
       ELSE IF Contains(lvl, s_warn) THEN Str(<<"M", "e", "d", "i", "u", "m">>)
       ELSE Str(<<"L", "o", "w">>)

\* the same token drawn every time
GeneratedIdRepeated(n) == Str(<<"g", "e", "n", "e", "r", "a", "t", "e", "d", "-">> \o <<DigitChars[1]>>)

\* f"generated-{os.urandom(8).hex()}", the n-th token drawn
GeneratedId(n) == Str(<<"g", "e", "n", "e", "r", "a", "t", "e", "d", "-">> \o <<DigitChars[n + 1]>>)

\* the id never taken from the message
EnrichedIdGenerated(request_id, n) == GeneratedId(n)

\* request_id or f"generated-{os.urandom(8).hex()}"
EnrichedId(request_id, n) == IF Truthy(request_id) THEN request_id ELSE GeneratedId(n)

\* handle_message, from the decoded body to the enriched_log it builds
EnrichedLog(body, n) ==
    LET payload == Unwrap(_safe_json_load(body))
        request_id == _get_value_flex(payload, <<<<"R", "e", "q", "u", "e", "s", "t", "I", "d">>,
                          <<"r", "e", "q", "u", "e", "s", "t", "_", "i", "d">>, s_id, <<"I", "d">>>>, None)
        app_name == _get_value_flex(payload, <<s_AppName, <<"a", "p", "p", "_", "n", "a", "m", "e">>,
                          <<"a", "p", "p", "l", "i", "c", "a", "t", "i", "o", "n">>>>, Str(s_Unknown))
        level == _get_value_flex(payload, <<s_Level, <<"l", "e", "v", "e", "l">>,
                          <<"s", "e", "v", "e", "r", "i", "t", "y">>>>, Str(s_Information))
        message == _get_value_flex(payload, <<s_Message, <<"m", "e", "s", "s", "a", "g", "e">>,
                          <<"m", "s", "g">>, <<"l", "o", "g">>>>, Str(Prefix(PyStr(payload), 500)))
        timestamp == _get_value_flex(payload, <<<<"T", "i", "m", "e", "G", "e", "n", "e", "r", "a", "t", "e", "d">>,
                          <<"t", "i", "m", "e", "s", "t", "a", "m", "p">>, <<"t", "i", "m", "e">>,
                          <<"T", "i", "m", "e">>>>, None)
        user_id == _get_value_flex(payload, <<<<"U", "s", "e", "r", "I", "d">>,
                          <<"u", "s", "e", "r", "_", "i", "d">>, <<"U", "s", "e", "r">>>>, None)
        status_code == _get_value_flex(payload, <<<<"S", "t", "a", "t", "u", "s", "C", "o", "d", "e">>,
                          <<"s", "t", "a", "t", "u", "s", "_", "c", "o", "d", "e">>,
                          <<"s", "t", "a", "t", "u", "s">>>>, None)
        file_name == _get_value_flex(payload, <<<<"F", "i", "l", "e", "N", "a", "m", "e">>,
                          <<"f", "i", "l", "e">>, <<"f", "i", "l", "e", "n", "a", "m", "e">>>>, None)
    IN << <<Str(s_id), EnrichedId(request_id, n)>>,
          <<Str(s_AppName), app_name>>,
          <<Str(s_Level), level>>,
          <<Str(s_Message), message>>,
          <<Str(s_Severity), SeverityOf(level)>>,
          <<Str(<<"U", "s", "e", "r", "I", "d">>), user_id>>,
          <<Str(<<"S", "t", "a", "t", "u", "s", "C", "o", "d", "e">>), status_code>>,
          <<Str(<<"F", "i", "l", "e", "N", "a", "m", "e">>), file_name>>,
          <<Str(<<"T", "i", "m", "e", "s", "t", "a", "m", "p">>), timestamp>>,
          <<Str(s_OriginalPayload), payload>> >>

\* the request id handle_message extracts from a message body
RequestIdOf(body) ==
    _get_value_flex(Unwrap(_safe_json_load(body)), <<<<"R", "e", "q", "u", "e", "s", "t", "I", "d">>,
        <<"r", "e", "q", "u", "e", "s", "t", "_", "i", "d">>, s_id, <<"I", "d">>>>, None)

\* container.upsert_item(doc) that the store accepted: insert if no document
\* has the id, replace the document that has it otherwise
UpsertItem(items, doc) ==
    LET id == DictGet(doc, Str(s_id))
    IN IF \E i \in DOMAIN items : DictGet(items[i], Str(s_id)) = id
       THEN [i \in DOMAIN items |-> IF DictGet(items[i], Str(s_id)) = id THEN doc ELSE items[i]]
       ELSE Append(items, doc)

\* _safe_upsert(container, doc, retries=5)
retries == 5

\* What the store answers to one upsert_item call: success, a
\* CosmosHttpResponseError with status 429, a CosmosHttpResponseError with
\* another status, or any other exception.
Responses == {"ok", "throttled", "http_error", "exception"}

\* a retry after every CosmosHttpResponseError, whatever its status
AfterAttemptRetryAnyStatus(i, response) ==
    CASE response = "ok" -> "return"
      [] response \in {"throttled", "http_error"} -> IF i + 1 < retries THEN "retry" ELSE "return"
      [] OTHER -> "raise"

\* One iteration of the loop of _safe_upsert, i the loop index (from 0):
\* "return" on success, "retry" (sleep and continue) on 429, "raise" on any
\* other error; when the last iteration continues, the loop ends and the
\* function falls off its end, returning None.
AfterAttempt(i, response) ==
    CASE response = "ok" -> "return"
      [] response = "throttled" -> IF i + 1 < retries THEN "retry" ELSE "return"
      [] OTHER -> "raise"

\* the workers of the function host that call _get_container
Workers == 1..MaxWorkers

\* the with statement entered without waiting for the lock
CanEnterUnlocked(lock) == TRUE

\* with _cosmos_lock: a worker enters when the lock is free
CanEnter(lock) == lock = 0

\* _get_container() ends for worker w at the given line, returning the
\* value of _container it reads there or raising
GetContainerEnds(w, end, line) ==
    /\ wpc' = [wpc EXCEPT ![w] = "done"]
    /\ wresult' = [wresult EXCEPT ![w] = [end |-> end, line |-> line, handle |-> IF end = "returned" THEN handle ELSE 0]]

\* One step of _get_container() by worker w, a step being one read or
\* write of the globals or of the lock; created tells whether
\* CosmosClient.from_connection_string succeeds
GetContainerStep(w, created) ==
    /\ \/ /\ wpc[w] = "idle"
          /\ wpc' = [wpc EXCEPT ![w] = "27"]
          /\ UNCHANGED <<_cosmos_lock, _cosmos_client, _db, handle, clients, _container, wresult>>
       \/ /\ wpc[w] = "27"
          /\ wpc' = [wpc EXCEPT ![w] = IF handle # 0 THEN "28" ELSE "29"]
          /\ UNCHANGED <<_cosmos_lock, _cosmos_client, _db, handle, clients, _container, wresult>>
       \/ /\ wpc[w] = "28"
          /\ GetContainerEnds(w, "returned", 28)
          /\ UNCHANGED <<_cosmos_lock, _cosmos_client, _db, handle, clients, _container>>
       \/ /\ wpc[w] = "29"
          /\ CanEnter(_cosmos_lock)
          /\ _cosmos_lock' = w
          /\ wpc' = [wpc EXCEPT ![w] = "30"]
          /\ UNCHANGED <<_cosmos_client, _db, handle, clients, _container, wresult>>
       \/ /\ wpc[w] = "30"
          /\ wpc' = [wpc EXCEPT ![w] = IF handle # 0 THEN "31" ELSE "32"]
          /\ UNCHANGED <<_cosmos_lock, _cosmos_client, _db, handle, clients, _container, wresult>>
       \/ /\ wpc[w] = "31"
          /\ GetContainerEnds(w, "returned", 31)
          /\ _cosmos_lock' = 0
          /\ UNCHANGED <<_cosmos_client, _db, handle, clients, _container>>
       \/ /\ wpc[w] = "32"
          /\ IF COSMOS_CONN
             THEN /\ wpc' = [wpc EXCEPT ![w] = "35"]
                  /\ UNCHANGED <<_cosmos_lock, wresult>>
             ELSE /\ GetContainerEnds(w, "raised", 33)
                  /\ _cosmos_lock' = 0
          /\ UNCHANGED <<_cosmos_client, _db, handle, clients, _container>>
       \/ /\ wpc[w] = "35"
          /\ IF created
             THEN /\ clients' = clients + 1
                  /\ _cosmos_client' = clients + 1
                  /\ wpc' = [wpc EXCEPT ![w] = "36"]
                  /\ UNCHANGED <<_cosmos_lock, wresult>>
             ELSE /\ GetContainerEnds(w, "raised", 35)
                  /\ _cosmos_lock' = 0
                  /\ UNCHANGED <<clients, _cosmos_client>>
          /\ UNCHANGED <<_db, handle, _container>>
       \/ /\ wpc[w] = "36"
          /\ _db' = _cosmos_client
          /\ wpc' = [wpc EXCEPT ![w] = "37"]
          /\ UNCHANGED <<_cosmos_lock, _cosmos_client, handle, clients, _container, wresult>>
       \/ /\ wpc[w] = "37"
          /\ handle' = _db
          /\ _container' = "LogsStored"
          /\ _cosmos_lock' = 0
          /\ wpc' = [wpc EXCEPT ![w] = "38"]
          /\ UNCHANGED <<_cosmos_client, _db, clients, wresult>>
       \/ /\ wpc[w] = "38"
          /\ GetContainerEnds(w, "returned", 38)
          /\ UNCHANGED <<_cosmos_lock, _cosmos_client, _db, handle, clients, _container>>
    /\ UNCHANGED <<COSMOS_CONN, store, urandom, qpc, msg, enriched_log, attempts, qresult, deliveries>>
    /\ UNCHANGED <<cvars, hvars, avars, evars, mvars, tvars, kvars>>

ContainerNext == \E w \in Workers, created \in BOOLEAN : GetContainerStep(w, created)

\* no worker has called _get_container
WorkersInit ==
    /\ _cosmos_lock = 0
    /\ _cosmos_client = 0
    /\ _db = 0
    /\ handle = 0
    /\ clients = 0
    /\ wpc = [w \in Workers |-> "idle"]
    /\ wresult = [w \in Workers |-> [end |-> "none", line |-> 0, handle |-> 0]]

----------------------------------------------------------------------------
(* Inbound messages *)

body_r1_error ==
    [parse |-> "json", text |-> <<>>,
     value |-> Dict(<< <<Str(<<"R", "e", "q", "u", "e", "s", "t", "I", "d">>), Str(<<"r", "1">>)>>,
                       <<Str(s_Level), Str(<<"E", "r", "r", "o", "r">>)>>,
                       <<Str(s_AppName), Str(<<"B", "i", "l", "l", "i", "n", "g">>)>> >>)]
body_r1_info ==
    [parse |-> "quoted", text |-> <<>>,
     value |-> Dict(<< <<Str(s_id), Str(<<"r", "1">>)>>,
                       <<Str(<<"l", "e", "v", "e", "l">>), Str(<<"i", "n", "f", "o">>)>> >>)]
body_r2_enveloped ==
    [parse |-> "json", text |-> <<>>,
     value |-> Dict(<< <<Str(<<"D", "a", "t", "a">>),
                         Dict(<< <<Str(<<"r", "e", "q", "u", "e", "s", "t", "_", "i", "d">>), Str(<<"r", "2">>)>>,
                                 <<Str(<<"s", "e", "v", "e", "r", "i", "t", "y">>), Str(<<"W", "A", "R", "N">>)>> >>)>> >>)]
body_no_id ==
    [parse |-> "json", text |-> <<>>,
     value |-> Dict(<< <<Str(s_Level), Str(<<"E", "r", "r", "o", "r">>)>>,
                       <<Str(s_AppName), Str(<<"B", "i", "l", "l", "i", "n", "g">>)>>,
                       <<Str(s_Message), Str(<<"t", "i", "m", "e", "o", "u", "t">>)>> >>)]
body_empty_id ==
    [parse |-> "json", text |-> <<>>,
     value |-> Dict(<< <<Str(<<"R", "e", "q", "u", "e", "s", "t", "I", "d">>), Str(<<>>)>>,
                       <<Str(s_id), Str(<<>>)>> >>)]
body_text ==
    [parse |-> "text", text |-> <<"o", "o", "p", "s">>, value |-> None]

body_fatal ==
    [parse |-> "json", text |-> <<>>,
     value |-> Dict(<< <<Str(<<"l", "e", "v", "e", "l">>), Str(<<"F", "a", "t", "a", "l", "E", "R", "R", "O", "R">>)>>,
                       <<Str(<<"a", "p", "p", "l", "i", "c", "a", "t", "i", "o", "n">>), Str(<<"A", "u", "t", "h">>)>> >>)]
body_null_level ==
    [parse |-> "json", text |-> <<>>,
     value |-> Dict(<< <<Str(s_Level), None>>,
                       <<Str(s_Message), Str(<<"o", "k">>)>> >>)]
body_blank_level ==
    [parse |-> "json", text |-> <<>>,
     value |-> Dict(<< <<Str(s_Level), Str(<<" ">>)>>,
                       <<Str(<<"s", "e", "v", "e", "r", "i", "t", "y">>), Str(<<"E", "r", "r", "o", "r">>)>> >>)]
body_list_service ==
    [parse |-> "json", text |-> <<>>,
     value |-> Dict(<< <<Str(s_Level), Str(<<"E", "r", "r", "o", "r">>)>>,
                       <<Str(s_AppName), [t |-> "list", s |-> <<"[", "'", "a", "'", "]">>]>> >>)]

body_error_timed ==
    [parse |-> "json", text |-> <<>>,
     value |-> Dict(<< <<Str(s_Level), Str(<<"E", "r", "r", "o", "r">>)>>,
                       <<Str(s_AppName), Str(<<"B", "i", "l", "l", "i", "n", "g">>)>>,
                       <<Str(<<"T", "i", "m", "e", "G", "e", "n", "e", "r", "a", "t", "e", "d">>), Str(<<"2", "0", "2", "4", "-", "0", "1", "-", "0", "2">>)>> >>)]
body_critical_timed ==
    [parse |-> "json", text |-> <<>>,
     value |-> Dict(<< <<Str(s_Level), Str(<<"C", "r", "i", "t", "i", "c", "a", "l">>)>>,
                       <<Str(s_AppName), Str(<<"A", "u", "t", "h">>)>>,
                       <<Str(<<"T", "i", "m", "e", "G", "e", "n", "e", "r", "a", "t", "e", "d">>), Str(<<"2", "0", "2", "4", "-", "0", "1", "-", "0", "2">>)>> >>)]
body_int_level ==
    [parse |-> "json", text |-> <<>>,
     value |-> Dict(<< <<Str(s_Level), [t |-> "int", s |-> <<"5">>]>>,
                       <<Str(<<"T", "i", "m", "e", "G", "e", "n", "e", "r", "a", "t", "e", "d">>), Str(<<"2", "0", "2", "4", "-", "0", "1", "-", "0", "2">>)>> >>)]

\* the messages of the runs that go from the queue to the query engine
PipelineBodies ==
    {body_r1_error, body_r1_info, body_fatal, body_error_timed, body_critical_timed, body_int_level}

Bodies ==
    {body_r1_error, body_r1_info, body_r2_enveloped, body_no_id, body_empty_id, body_text,
     body_fatal, body_null_level, body_blank_level, body_list_service}

----------------------------------------------------------------------------
(* function_app.process_log_message -> queue_trigger.handle_message *)

\* EnrichedLog over the inbound messages and the tokens a run can draw
Enriched == [b \in Bodies \cup PipelineBodies, n \in 0..MaxDeliveries |-> EnrichedLog(b, n)]

\* RequestIdOf over the inbound messages, and the messages whose request id
\* is truthy
RequestIds == [b \in Bodies \cup PipelineBodies |-> RequestIdOf(b)]
WithRequestId == {b \in Bodies \cup PipelineBodies : Truthy(RequestIds[b])}

\* process_log_message(azservicebus) up to the first upsert attempt:
\* handle_message builds enriched_log, then _get_container() returns the
\* container, creating it on the first call, or raises RuntimeError when the
\* connection string is not set; both callers re-raise.
ReceiveMessage(body) ==
    /\ qpc = "idle"
    /\ deliveries < MaxDeliveries
    /\ deliveries' = deliveries + 1
    /\ msg' = body
    /\ enriched_log' = Enriched[body, urandom]
    /\ urandom' = IF body \in WithRequestId THEN urandom ELSE urandom + 1
    /\ attempts' = <<>>
    /\ IF _container # "unset"
       THEN /\ qpc' = "upsert"
            /\ qresult' = "none"
            /\ UNCHANGED _container
       ELSE IF ~COSMOS_CONN
       THEN /\ qpc' = "idle"
            /\ qresult' = "raised"
            /\ UNCHANGED _container
       ELSE /\ _container' = "LogsStored"
            /\ qpc' = "upsert"
            /\ qresult' = "none"
    /\ UNCHANGED <<COSMOS_CONN, store>>
    /\ UNCHANGED <<cvars, svars>>

\* One attempt of _safe_upsert and, when it ends the loop, the return or
\* re-raise through handle_message and process_log_message.
UpsertAttempt(response) ==
    /\ qpc = "upsert"
    /\ attempts' = Append(attempts, response)
    /\ store' = IF response = "ok" THEN UpsertItem(store, enriched_log) ELSE store
    /\ LET next == AfterAttempt(Len(attempts), response)
       IN /\ qpc' = IF next = "retry" THEN "upsert" ELSE "idle"
          /\ qresult' = CASE next = "retry" -> "none"
                          [] next = "return" -> "returned"
                          [] next = "raise" -> "raised"
    /\ UNCHANGED <<COSMOS_CONN, _container, urandom, msg, enriched_log, deliveries>>
    /\ UNCHANGED <<cvars, svars>>

QueueNext ==
    \/ \E body \in Bodies : ReceiveMessage(body)
    \/ \E response \in Responses : UpsertAttempt(response)

----------------------------------------------------------------------------
(* cosmos_trigger.py *)

\* _insight_container = _db.get_container_client(INSIGHT_CONTAINER) if _db else None:
\* the client exists iff the connection string was set when the module was loaded
_insight_container == COSMOS_CONN

\* An object that is not a dict: [t |-> "object", conv, value], conv naming
\* the first recovery strategy of _doc_to_dict that works on it:
\*   "mapping"  dict(d) succeeds and gives value
\*   "to_json"  dict(d) fails, json.loads(d.to_json()) gives value
\*   "attrs"    only d.__dict__ works, value holding its items
\*   "opaque"   nothing works, value being str(d)
Object(conv, value) == [t |-> "object", conv |-> conv, value |-> value]

_doc_to_dict(d) ==
    CASE d.t = "dict" -> d
      [] d.t = "object" /\ d.conv \in {"mapping", "to_json"} -> d.value
      [] d.t = "object" /\ d.conv = "attrs" ->
             Dict(SelectSeq(d.value.d, LAMBDA kv : kv[1].s = <<>> \/ kv[1].s[1] # "_"))
      [] d.t = "object" /\ d.conv = "opaque" ->
             Dict(<< <<Str(<<"_", "r", "a", "w", "_", "r", "e", "p", "r">>), d.value>> >>)
      [] d.t \in {"str", "list"} /\ ~Truthy(d) -> Dict(<<>>)
      [] OTHER -> Dict(<< <<Str(<<"_", "r", "a", "w", "_", "r", "e", "p", "r">>), Str(PyStr(d))>> >>)

\* k.lower() raises AttributeError on a key that is not a string
HasNonStringKey(doc) == \E i \in DOMAIN doc.d : doc.d[i][1].t # "str"

\* _flex_get raises when it lower-cases the keys of a mapping with a non-string key
FlexGetRaises(d) == IsDict(_doc_to_dict(d)) /\ HasNonStringKey(_doc_to_dict(d))

_flex_get(d, keys, default) ==
    LET doc == _doc_to_dict(d)
    IN IF ~IsDict(doc) THEN default
       ELSE FirstPresent(Lowered(doc.d), keys, default)

\* hash(v) raises TypeError
Unhashable(v) == v.t \in {"list", "dict"}

\* Consider a log doc to have at least one of these keys: Level, Message, AppName, RequestId
LooksLikeLog(doc) ==
    \E k \in {<<"l", "e", "v", "e", "l">>, <<"m", "e", "s", "s", "a", "g", "e">>,
              <<"a", "p", "p", "n", "a", "m", "e">>, <<"r", "e", "q", "u", "e", "s", "t", "i", "d">>} :
        \E i \in DOMAIN doc.d : Lower(doc.d[i][1].s) = k

LevelKeys == <<s_Level, <<"l", "e", "v", "e", "l">>, s_Severity, <<"s", "e", "v", "e", "r", "i", "t", "y">>>>

\* The body of the counting loop for one document: "raise" when a statement
\* of it raises, "skip" for a non-log document, else the counter to increment
\* and the service name.
Classify(raw_doc) ==
    LET doc == _doc_to_dict(raw_doc)
        level0 == _flex_get(doc, LevelKeys, Str(s_Information))
        app_name == _flex_get(doc, <<s_AppName, <<"a", "p", "p", "_", "n", "a", "m", "e">>,
                        <<"A", "p", "p", "l", "i", "c", "a", "t", "i", "o", "n">>>>, Str(s_Unknown))
        blank == level0.t = "none" \/ (level0.t = "str" /\ IsBlank(level0.s))
        stored == DictGet(doc.d, Str(s_OriginalPayload))
        orig == IF Truthy(stored) THEN stored ELSE Dict(<<>>)
        level == IF blank THEN _flex_get(orig, LevelKeys, Str(s_Information)) ELSE level0
        lvl == IF level.t # "none" THEN Lower(PyStr(level)) ELSE <<"i", "n", "f", "o", "r", "m", "a", "t", "i", "o", "n">>
    IN IF ~IsDict(doc) \/ HasNonStringKey(doc) THEN [kind |-> "raise", app_name |-> None]
       ELSE IF ~LooksLikeLog(doc) THEN [kind |-> "skip", app_name |-> None]
       ELSE IF blank /\ FlexGetRaises(orig) THEN [kind |-> "raise", app_name |-> None]
       ELSE IF Contains(lvl, s_error)
            THEN IF Unhashable(app_name) THEN [kind |-> "raise", app_name |-> None]
                 ELSE [kind |-> "error", app_name |-> app_name]
       ELSE IF Contains(lvl, s_warn) THEN [kind |-> "warning", app_name |-> app_name]
       ELSE [kind |-> "info", app_name |-> app_name]

\* service_errors[app_name] = service_errors.get(app_name, 0) + 1
Increment(service_errors, app_name) ==
    IF \E i \in DOMAIN service_errors : service_errors[i][1] = app_name
    THEN [i \in DOMAIN service_errors |->
             IF service_errors[i][1] = app_name THEN <<app_name, service_errors[i][2] + 1>>
             ELSE service_errors[i]]
    ELSE Append(service_errors, <<app_name, 1>>)

\* the counters before the first document
NoCounts ==
    [error_count |-> 0, warning_count |-> 0, info_count |-> 0, service_errors |-> <<>>,
     processed |-> 0, raised |-> FALSE]

----------------------------------------------------------------------------
(* Change-feed documents *)

doc_error_billing ==
    Dict(<< <<Str(s_id), Str(<<"r", "1">>)>>,
            <<Str(s_Level), Str(<<"E", "r", "r", "o", "r">>)>>,
            <<Str(s_AppName), Str(<<"B", "i", "l", "l", "i", "n", "g">>)>> >>)
doc_error_auth ==
    Object("mapping",
        Dict(<< <<Str(<<"l", "e", "v", "e", "l">>), Str(<<"E", "R", "R", "O", "R">>)>>,
                <<Str(<<"a", "p", "p", "_", "n", "a", "m", "e">>), Str(<<"A", "u", "t", "h">>)>> >>))
doc_warning ==
    Dict(<< <<Str(<<"R", "e", "q", "u", "e", "s", "t", "I", "d">>), Str(<<"r", "2">>)>>,
            <<Str(s_Level), Str(<<" ">>)>>,
            <<Str(s_OriginalPayload), Dict(<< <<Str(s_Level), Str(<<"W", "a", "r", "n", "i", "n", "g">>)>> >>)>> >>)
doc_info ==
    Object("to_json", Dict(<< <<Str(s_Message), Str(<<"o", "k">>)>> >>))
doc_insight ==
    Dict(<< <<Str(s_id), Str(<<"u", "1">>)>>,
            <<Str(<<"s", "t", "a", "t", "u", "s">>), Str(<<"S", "T", "A", "B", "L", "E">>)>> >>)
doc_opaque ==
    Object("opaque", Str(<<"<", "o", "b", "j", "e", "c", "t", ">">>))
doc_list_service ==
    Dict(<< <<Str(s_Level), Str(<<"E", "r", "r", "o", "r">>)>>,
            <<Str(s_AppName), [t |-> "list", s |-> <<"[", "'", "a", "'", "]">>]>> >>)
doc_json_array ==
    Object("to_json", [t |-> "list", s |-> <<"[", "1", "]">>])
doc_int_key ==
    Dict(<< <<[t |-> "int", s |-> <<"1">>], Str(<<"x">>)>>,
            <<Str(s_Level), Str(<<"E", "r", "r", "o", "r">>)>> >>)

doc_severity_only ==
    Dict(<< <<Str(<<"s", "e", "v", "e", "r", "i", "t", "y">>), Str(<<"E", "r", "r", "o", "r">>)>>,
            <<Str(<<"a", "p", "p", "_", "n", "a", "m", "e">>), Str(<<"A", "u", "t", "h">>)>> >>)

WellFormedLogs == {doc_error_billing, doc_error_auth, doc_warning, doc_info}
NonLogs == {doc_insight, doc_opaque}
Malformed == {doc_list_service, doc_json_array, doc_int_key}
OtherSpellings == {doc_severity_only}
Docs == WellFormedLogs \cup NonLogs \cup Malformed \cup OtherSpellings

\* Classify over the documents of the model
Classified == [d \in Docs |-> Classify(d)]

\* The counters after the body of the counting loop has run on one document
\* classified as c
CountStep(acc, c) ==
    CASE c.kind = "raise" -> [acc EXCEPT !.processed = @ + 1, !.raised = TRUE]
      [] c.kind = "skip" -> [acc EXCEPT !.processed = @ + 1]
      [] c.kind = "error" ->
             [acc EXCEPT !.processed = @ + 1,
                         !.error_count = @ + 1,
                         !.service_errors = Increment(@, c.app_name)]
      [] c.kind = "warning" -> [acc EXCEPT !.processed = @ + 1, !.warning_count = @ + 1]
      [] c.kind = "info" -> [acc EXCEPT !.processed = @ + 1, !.info_count = @ + 1]

RECURSIVE CountFrom(_, _)
\* for raw_doc in docs: ..., ended by the first statement that raises
CountFrom(docs, acc) ==
    IF docs = <<>> \/ acc.raised THEN acc
    ELSE CountFrom(Tail(docs), CountStep(acc, Classified[docs[1]]))

\* round((error_count / total) * 100, 2) if total > 0 else 0, in hundredths
\* of a percent.  The quotient is rounded to the nearest hundredth; when it
\* lies exactly halfway between two hundredths the binary floating-point
\* value decides, so both neighbours are possible.
ErrorRates(error_count, total) ==
    IF total > 0
    THEN LET q == (error_count * 10000) \div total
             r == (error_count * 10000) % total
         IN IF 2 * r < total THEN {q}
            ELSE IF 2 * r > total THEN {q + 1}
            ELSE {q, q + 1}
    ELSE {0}

\* the thresholds taken inclusively
StatusOfInclusive(error_rate) ==
    IF error_rate >= 30 * 100 THEN "CRITICAL"
    ELSE IF error_rate >= 10 * 100 THEN "WARNING"
    ELSE "STABLE"

\* if error_rate > 30: CRITICAL elif error_rate > 10: WARNING else: STABLE
StatusOf(error_rate) ==
    IF error_rate > 30 * 100 THEN "CRITICAL"
    ELSE IF error_rate > 10 * 100 THEN "WARNING"
    ELSE "STABLE"

\* the maximum taken as the last of the services tied for it
TopServiceLastSeen(service_errors) ==
    IF service_errors = <<>> THEN Str(<<"N", "o", "n", "e">>)
    ELSE LET best == CHOOSE i \in DOMAIN service_errors :
                         /\ \A j \in DOMAIN service_errors : service_errors[j][2] <= service_errors[i][2]
                         /\ \A j \in (i + 1)..Len(service_errors) : service_errors[j][2] < service_errors[i][2]
         IN service_errors[best][1]

\* max(service_errors, key=service_errors.get) if service_errors else "None"
TopService(service_errors) ==
    IF service_errors = <<>> THEN Str(<<"N", "o", "n", "e">>)
    ELSE LET best == CHOOSE i \in DOMAIN service_errors :
                         /\ \A j \in DOMAIN service_errors : service_errors[j][2] <= service_errors[i][2]
                         /\ \A j \in 1..(i - 1) : service_errors[j][2] < service_errors[i][2]
         IN service_errors[best][1]

\* total_logs taken from the number of documents seen, skipped ones included
InsightDocTotalProcessed(acc, error_rate, uuid, now) ==
    [id |-> uuid,
     timestamp |-> now,
     total_logs |-> acc.processed,
     processed_batches |-> acc.processed,
     error_count |-> acc.error_count,
     warning_count |-> acc.warning_count,
     info_count |-> acc.info_count,
     error_rate_percent |-> error_rate,
     status |-> StatusOf(error_rate),
     top_error_service |-> TopService(acc.service_errors),
     service_error_breakdown |-> acc.service_errors]

\* insight_doc built from the counters; uuid numbers the uuid4 drawn, now is utcnow()
InsightDoc(acc, error_rate, uuid, now) ==
    [id |-> uuid,
     timestamp |-> now,
     total_logs |-> acc.error_count + acc.warning_count + acc.info_count,
     processed_batches |-> acc.processed,
     error_count |-> acc.error_count,
     warning_count |-> acc.warning_count,
     info_count |-> acc.info_count,
     error_rate_percent |-> error_rate,
     status |-> StatusOf(error_rate),
     top_error_service |-> TopService(acc.service_errors),
     service_error_breakdown |-> acc.service_errors]

\* _insight_container.upsert_item(insight_doc) that the store accepted
UpsertInsight(items, doc) ==
    IF \E i \in DOMAIN items : items[i].id = doc.id
    THEN [i \in DOMAIN items |-> IF items[i].id = doc.id THEN doc ELSE items[i]]
    ELSE Append(items, doc)

\* What is left of the iterable after "for i, doc in enumerate(documents):
\* if i >= 5: break": a list is untouched, a one-shot iterator has lost the
\* items fetched, the one fetched with i = 5 included.
AfterSample(items, kind) ==
    IF kind = "generator" THEN SubSeq(items, (IF Len(items) < 6 THEN Len(items) ELSE 6) + 1, Len(items))
    ELSE items

\* What is left of the iterable after list(documents)
AfterList(items, kind) == IF kind = "generator" THEN <<>> ELSE items

\* docs = list(documents) at line 119, after the sample loop and the
\* len(list(documents)) of the log line have iterated documents
DocsOf(items, kind) == AfterList(AfterSample(items, kind), kind)

\* the exception re-raised after logging
ExceptClauseReraise == "raised"

\* except Exception as e: logging.exception(...) and no re-raise (lines 194-196)
ExceptClause == "returned"

\* Lines 158-192 of handle_cosmos_changes, from the counters to the upsert:
\* how the call ends, the insight document the store took (if any) and the
\* store's answer.  response is what the store answers to upsert_item.
WriteInsight(acc, available, response, error_rate, uuid, now) ==
    IF ~available THEN [end |-> "returned", upsert |-> <<>>, response |-> "none"]
    ELSE IF response # "ok" THEN [end |-> ExceptClause, upsert |-> <<>>, response |-> response]
    ELSE [end |-> "returned", upsert |-> <<InsightDoc(acc, error_rate, uuid, now)>>, response |-> response]

\* handle_cosmos_changes(documents)
HandleCosmos(items, kind, available, response, error_rate, uuid, now) ==
    LET docs == DocsOf(items, kind)
        acc == CountFrom(docs, NoCounts)
    IN IF docs = <<>> THEN [end |-> "returned", upsert |-> <<>>, response |-> "none"]
       ELSE IF acc.raised THEN [end |-> ExceptClause, upsert |-> <<>>, response |-> "none"]
       ELSE WriteInsight(acc, available, response, error_rate, uuid, now)

\* the counters when the counting loop of handle_cosmos_changes ended
CountsOf(items, kind) == CountFrom(DocsOf(items, kind), NoCounts)

\* the error rates line 159 can compute from the counters
RatesOf(acc) == ErrorRates(acc.error_count, acc.error_count + acc.warning_count + acc.info_count)

\* except Exception as e: logging.exception(...) of process_cosmos_changes
ProcessExceptClause == "returned"

----------------------------------------------------------------------------
(* function_app.process_cosmos_changes -> cosmos_trigger.handle_cosmos_changes *)

\* no aggregation call has been made on the batch being collected
Collecting == cresult = "none" /\ presult = "none"

\* The change feed adds a document to the batch it will deliver next.
ChangeFeedDoc(d) ==
    /\ runs < MaxRuns
    /\ IF Collecting
       THEN /\ Len(documents) < MaxBatch
            /\ documents' = Append(documents, d)
       ELSE documents' = <<d>>
    /\ iterable' = "list"
    /\ cresult' = "none"
    /\ presult' = "none"
    /\ counts' = NoCounts
    /\ upsert_response' = "none"
    /\ written' = 0
    /\ UNCHANGED <<insights, runs>>
    /\ UNCHANGED <<qvars, svars>>

\* the store and the end of the call after a call that ended as out
Ended(out) ==
    /\ insights' = IF out.upsert = <<>> THEN insights ELSE UpsertInsight(insights, out.upsert[1])
    /\ written' = Len(out.upsert)
    /\ upsert_response' = out.response
    /\ cresult' = out.end

\* the effect of one handle_cosmos_changes call on the collected batch
Aggregate(kind, response) ==
    /\ counts' = CountsOf(documents, kind)
    /\ \E error_rate \in RatesOf(counts') :
         Ended(HandleCosmos(documents, kind, _insight_container, response,
                            error_rate, Len(insights) + 1, runs + 1))

\* handle_cosmos_changes(documents) on the collected batch, passed as a list
\* or as a one-shot iterator
HandleCosmosChanges(kind, response) ==
    /\ Collecting
    /\ runs < MaxRuns
    /\ Aggregate(kind, response)
    /\ iterable' = kind
    /\ presult' = "none"
    /\ runs' = runs + 1
    /\ UNCHANGED documents
    /\ UNCHANGED <<qvars, svars>>

\* process_cosmos_changes(documents: func.DocumentList): returns at once on
\* an empty list, else calls handle_cosmos_changes and swallows what it raises
ProcessCosmosChanges(response) ==
    /\ Collecting
    /\ runs < MaxRuns
    /\ IF documents = <<>>
       THEN /\ cresult' = "none"
            /\ presult' = "returned"
            /\ UNCHANGED <<insights, counts, upsert_response, written>>
       ELSE /\ Aggregate("list", response)
            /\ presult' = IF cresult' = "raised" THEN ProcessExceptClause ELSE "returned"
    /\ iterable' = "list"
    /\ runs' = runs + 1
    /\ UNCHANGED documents
    /\ UNCHANGED <<qvars, svars>>

\* Lines 158-192 on the counters of a batch, whatever batch produced them
Summarise(response) ==
    /\ cresult = "none"
    /\ \E error_rate \in RatesOf(counts) :
         Ended(WriteInsight(counts, _insight_container, response,
                            error_rate, Len(insights) + 1, runs + 1))
    /\ runs' = runs + 1
    /\ UNCHANGED <<documents, iterable, presult, counts>>
    /\ UNCHANGED <<qvars, svars>>

CosmosNext ==
    \/ \E d \in Docs : ChangeFeedDoc(d)
    \/ \E kind \in {"list", "generator"}, response \in Responses : HandleCosmosChanges(kind, response)
    \/ \E response \in Responses : ProcessCosmosChanges(response)

(* Insights_api/intelligent_search.py: the search history *)

\* the categories of load_history's default history
Categories == {"service_level", "system_health", "semantic"}

\* JSON values of the history file: a list of entries, an object (a function
\* from its keys to values), or a value that is neither
JsonList(items) == [t |-> "list", items |-> items]
JsonObject(d) == [t |-> "dict", d |-> d]
Scalar == [t |-> "null"]

\* {"service_level": [], "system_health": [], "semantic": []}
EmptyHistory == [c \in Categories |-> JsonList(<<>>)]

\* the states of the file at HISTORY_PATH
Absent == [kind |-> "absent"]
Unparsable == [kind |-> "invalid"]
Json(data) == [kind |-> "json", data |-> data]

\* the dict read back when a dict in the file is not taken as a history
load_history_dict_invalid(file) ==
    IF file.kind = "json" /\ file.data.t = "list"
    THEN [EmptyHistory EXCEPT !["semantic"] = file.data]
    ELSE EmptyHistory

\* load_history(): the dict it returns, as a function from its keys
load_history(file) ==
    IF file.kind = "absent" THEN EmptyHistory
    ELSE IF file.kind = "invalid" THEN EmptyHistory
    ELSE IF file.data.t = "list" THEN [EmptyHistory EXCEPT !["semantic"] = file.data]
    ELSE IF file.data.t # "dict" THEN EmptyHistory
    ELSE file.data.d

\* entry.get("type", "semantic")
QueryTypeOf(e) == IF "type" \in DOMAIN e THEN e.type ELSE "semantic"

\* the ten oldest entries kept
keep_first(items) == IF Len(items) > 10 THEN SubSeq(items, 1, 10) ELSE items

\* history[query_type][-10:]
keep_last(items) == IF Len(items) > 10 THEN SubSeq(items, Len(items) - 10 + 1, Len(items)) ELSE items

\* save_history(entry): the file it leaves.  list.append on a value that is
\* not a list raises before the file is opened, and the except clause
\* leaves the file as it was.
save_history(file, e) ==
    LET loaded == load_history(file)
        query_type == QueryTypeOf(e)
        history == IF query_type \in DOMAIN loaded THEN loaded
                   ELSE [c \in DOMAIN loaded \cup {query_type} |->
                            IF c = query_type THEN JsonList(<<>>) ELSE loaded[c]]
    IN IF history[query_type].t # "list" THEN file
       ELSE Json(JsonObject([history EXCEPT
                ![query_type] = JsonList(keep_last(Append(history[query_type].items, e)))]))

\* the entries a history file holds under a category
FileEntriesOf(file, c) ==
    IF c \in DOMAIN load_history(file) /\ load_history(file)[c].t = "list"
    THEN load_history(file)[c].items ELSE <<>>

\* an entry of the given type, or one without a "type" key when type is
\* "", numbered within the category it goes to
EntryTypes == Categories \cup {""}
EntryOf(type, n) == IF type = "" THEN [query |-> n] ELSE [type |-> type, query |-> n]

\* save_history(entry)
SaveHistory(type) ==
    /\ Len(appended["service_level"]) + Len(appended["system_health"]) + Len(appended["semantic"]) < MaxSaves
    /\ LET e == EntryOf(type, Len(appended[QueryTypeOf(EntryOf(type, 0))]) + 1)
       IN /\ history_file' = save_history(history_file, e)
          /\ entry' = <<e>>
          /\ appended' = [appended EXCEPT ![QueryTypeOf(e)] = Append(@, e)]
    /\ UNCHANGED <<qvars, cvars, avars, evars, ovars>>

HistoryNext == \E type \in EntryTypes : SaveHistory(type)

\* the threads of the API server that end a search at the same time
Savers == 1..MaxSavers

\* One step of save_history(entry) in thread t, the entry being the result
\* of the thread's search: load_history reads the file (line 60), open(...,
\* "w") truncates it (line 68), json.dump writes the history (line 69).
\* When the append raises the except clause ends the call and the file is
\* not opened.
SaverStep(t, type) ==
    /\ \/ /\ save_pc[t] = "idle"
          /\ save_local' = [save_local EXCEPT ![t] = [entry |-> EntryOf(type, t), loaded |-> Absent]]
          /\ save_pc' = [save_pc EXCEPT ![t] = "60"]
          /\ UNCHANGED <<history_file, entry, appended>>
       \/ /\ save_pc[t] = "60"
          /\ save_local' = [save_local EXCEPT ![t].loaded = history_file]
          /\ save_pc' = [save_pc EXCEPT ![t] = "68"]
          /\ UNCHANGED <<history_file, entry, appended>>
       \/ /\ save_pc[t] = "68"
          /\ IF save_history(save_local[t].loaded, save_local[t].entry) = save_local[t].loaded
             THEN /\ save_pc' = [save_pc EXCEPT ![t] = "done"]
                  /\ UNCHANGED history_file
             ELSE /\ save_pc' = [save_pc EXCEPT ![t] = "69"]
                  /\ history_file' = Unparsable
          /\ UNCHANGED <<entry, appended, save_local>>
       \/ /\ save_pc[t] = "69"
          /\ history_file' = save_history(save_local[t].loaded, save_local[t].entry)
          /\ entry' = <<save_local[t].entry>>
          /\ appended' = [appended EXCEPT ![QueryTypeOf(save_local[t].entry)] = Append(@, save_local[t].entry)]
          /\ save_pc' = [save_pc EXCEPT ![t] = "done"]
          /\ UNCHANGED save_local
    /\ UNCHANGED <<qvars, cvars, avars, evars, mvars, wvars, tvars>>

SaversNext == \E t \in Savers, type \in EntryTypes : SaverStep(t, type)

\* no thread is saving
SaversInit ==
    /\ save_pc = [t \in Savers |-> "idle"]
    /\ save_local = [t \in Savers |-> [entry |-> EntryOf("", 0), loaded |-> Absent]]

HistoryInit ==
    /\ history_file = Absent
    /\ entry = <<>>
    /\ appended = [c \in Categories |-> <<>>]

----------------------------------------------------------------------------
(* Insights_api/intelligent_search.py: the cache *)

\* The results "SELECT * FROM c ORDER BY c._ts DESC" can give on a
\* container: its items with _ts descending, items of equal _ts in any order
RECURSIVE NewestFirst(_, _)
NewestFirst(items, I) ==
    IF I = {} THEN {<<>>}
    ELSE UNION {{<<items[i]>> \o rest : rest \in NewestFirst(items, I \ {i})} :
                   i \in {i \in I : \A j \in I : items[j]._ts <= items[i]._ts}}
QueryItems(items) == NewestFirst(items, DOMAIN items)

\* how the two query_items calls of fetch_all_data end
FetchOutcomes == {"ok", "logs_failed", "insights_failed"}

\* the exception of a failed query leaving fetch_all_data
fetch_all_data_reraise(outcome, logs, snapshots) ==
    IF outcome = "ok" THEN [end |-> "returned", logs |-> logs, insights |-> snapshots]
    ELSE [end |-> "raised", logs |-> <<>>, insights |-> <<>>]

\* fetch_all_data(): logs and insights are what the queries give when they
\* succeed
fetch_all_data(outcome, logs, snapshots) ==
    IF outcome = "ok" THEN [end |-> "returned", logs |-> logs, insights |-> snapshots]
    ELSE [end |-> "returned", logs |-> <<>>, insights |-> <<>>]

\* the freshness test with a refresh exactly 10 seconds old still fresh
FreshInclusive(cache, force, now) ==
    /\ cache.last_refresh # <<>>
    /\ ~force
    /\ now - cache.last_refresh[1] <= 10

\* if CACHE["last_refresh"] and not force: delta = ...; if delta < 10
Fresh(cache, force, now) ==
    /\ cache.last_refresh # <<>>
    /\ ~force
    /\ now - cache.last_refresh[1] < 10

\* refresh_cache(force) at time now: the call (its arguments, the cache it
\* found, the number of fetch_all_data calls it made, what the two queries
\* gave or would have given, how it ended and what it returned) and the
\* cache it leaves
refresh_cache(cache, force, now, outcome, logs, snapshots) ==
    LET call == [force |-> force, now |-> now, before |-> cache, outcome |-> outcome,
                 logs |-> logs, snapshots |-> snapshots]
        data == fetch_all_data(outcome, logs, snapshots)
        fresh == [logs |-> data.logs, insights |-> data.insights, last_refresh |-> <<now>>]
    IN IF Fresh(cache, force, now)
       THEN [cache |-> cache,
             call |-> [call EXCEPT !.outcome = "none", !.logs = <<>>, !.snapshots = <<>>] @@ [fetches |-> 0, end |-> "returned", returned |-> <<cache>>]]
       ELSE IF data.end = "raised"
       THEN [cache |-> cache, call |-> call @@ [fetches |-> 1, end |-> "raised", returned |-> <<>>]]
       ELSE [cache |-> fresh, call |-> call @@ [fetches |-> 1, end |-> "returned", returned |-> <<fresh>>]]

\* time passes
Tick(d) ==
    /\ clock + d <= MaxClock
    /\ clock' = clock + d
    /\ UNCHANGED <<logs_container, insights_container, CACHE, rcall>>
    /\ UNCHANGED <<qvars, cvars, hvars, evars, ovars>>

\* log records of the store as the API reads them
log_error_billing ==
    [AppName |-> <<"B", "i", "l", "l", "i", "n", "g">>, Level |-> <<"E", "r", "r", "o", "r">>,
     Message |-> <<"p", "a", "y", "m", "e", "n", "t", " ", "f", "a", "i", "l", "e", "d">>,
     Severity |-> <<"H", "i", "g", "h">>]
log_info_billing ==
    [AppName |-> <<"B", "i", "l", "l", "i", "n", "g">>, Level |-> s_Information,
     Message |-> <<"p", "a", "y", "m", "e", "n", "t", " ", "o", "k">>,
     Severity |-> <<"L", "o", "w">>]
log_critical_auth ==
    [AppName |-> <<"A", "u", "t", "h">>, Level |-> <<"C", "R", "I", "T", "I", "C", "A", "L">>,
     Message |-> <<"l", "o", "g", "i", "n", " ", "d", "o", "w", "n">>,
     Severity |-> <<"L", "o", "w">>]

\* a log record written at time t: Timestamp is the enricher's, _ts the store's
LogAt(log, t) == log @@ [_ts |-> t, Timestamp |-> t]

\* an insight document of the aggregator written at time t, with an error
\* rate that gives it the status (in hundredths of a percent)
SnapshotAt(status, t) ==
    [status |-> status,
     error_rate_percent |-> CASE status = "CRITICAL" -> 4000
                              [] status = "WARNING" -> 2000
                              [] OTHER -> 0,
     error_count |-> CASE status = "CRITICAL" -> 4
                       [] status = "WARNING" -> 2
                       [] OTHER -> 0,
     top_error_service |-> IF status = "STABLE" THEN <<"N", "o", "n", "e">> ELSE <<"B", "i", "l", "l", "i", "n", "g">>,
     timestamp |-> t,
     _ts |-> t]

\* the store takes a log record (the queue trigger's upsert) and stamps its _ts
LogStored(log, limit) ==
    /\ Len(logs_container) < limit
    /\ logs_container' = Append(logs_container, LogAt(log, clock))
    /\ UNCHANGED <<clock, insights_container, CACHE, rcall>>
    /\ UNCHANGED <<qvars, cvars, hvars, evars, ovars>>

\* the store takes an insight document (the aggregator's upsert) and stamps its _ts
InsightStored(status, limit) ==
    /\ Len(insights_container) < limit
    /\ insights_container' = Append(insights_container, SnapshotAt(status, clock))
    /\ UNCHANGED <<clock, logs_container, CACHE, rcall>>
    /\ UNCHANGED <<qvars, cvars, hvars, evars, ovars>>

\* refresh_cache(force)
RefreshCache(force, outcome) ==
    \E logs \in QueryItems(logs_container), ins \in QueryItems(insights_container) :
        LET r == refresh_cache(CACHE, force, clock, outcome, logs, ins)
        IN /\ CACHE' = r.cache
           /\ rcall' = <<r.call>>
           /\ UNCHANGED <<clock, logs_container, insights_container>>
           /\ UNCHANGED <<qvars, cvars, hvars, evars, ovars>>

\* the threads of the API server that serve requests at the same time
Threads == 1..MaxThreads

\* a list object: the refresh that put it into CACHE (0 for the lists of
\* line 34) and its items
ListOf(fetch, items) == [fetch |-> fetch, items |-> items]

\* the value of a dict object of the heap, as CACHE holds it
Plain(dict) == [logs |-> dict.logs.items, insights |-> dict.insights.items, last_refresh |-> dict.last_refresh]

\* the new snapshot written into the dict CACHE is bound to
UpdateInPlace(objects, at, fresh) == [heap |-> [objects EXCEPT ![at] = fresh], at |-> at]

\* CACHE = {"logs": logs, "insights": insights, "last_refresh": now}: a new
\* dict object is created and the global is bound to it
Rebind(objects, at, fresh) == [heap |-> Append(objects, fresh), at |-> Len(objects) + 1]

\* the calls a request makes: intelligent_search(query), which forces a
\* refresh, or refresh_cache(force)
Calls ==
    {[kind |-> "intelligent_search", force |-> TRUE]} \cup
    {[kind |-> "refresh_cache", force |-> force] : force \in BOOLEAN}

\* the locals of a thread that serves no request yet
NoLocals ==
    [kind |-> "none", force |-> FALSE, now |-> 0, logs |-> <<>>, insights |-> <<>>,
     data |-> 0, read_logs |-> ListOf(0, <<>>), read_insights |-> ListOf(0, <<>>), seen |-> 0]

\* return CACHE: the caller gets the dict the global is bound to at that
\* moment, and the locals of refresh_cache are gone
Returned_to(locals, at) == [NoLocals EXCEPT !.kind = locals.kind, !.force = locals.force, !.data = at]

\* refresh_cache returns to its caller: intelligent_search goes on at line
\* 166, a refresh_cache request is done
AfterReturn(t) == IF tlocal[t].kind = "intelligent_search" THEN "166 logs" ELSE "done"

\* One step of thread t in refresh_cache(force) or in
\* intelligent_search(query), a step being one read or write of the global
\* CACHE, one read of a dict or one query of the store. Threads are
\* numbered in the order their requests arrive, and the first request is a
\* search, the others being searches or refresh_cache calls
ThreadStep(t) ==
    /\ \/ /\ tpc[t] = "idle"
          /\ \A u \in Threads : u < t => tpc[u] # "idle"
          /\ \E call \in Calls :
                /\ t = 1 => call.kind = "intelligent_search"
                /\ tlocal' = [tlocal EXCEPT ![t] = [NoLocals EXCEPT !.kind = call.kind, !.force = call.force, !.now = clock]]
          /\ tpc' = [tpc EXCEPT ![t] = "104"]
          /\ UNCHANGED <<heap, cache_at, fetches, CACHE>>
       \/ /\ tpc[t] = "104"
          /\ tpc' = [tpc EXCEPT ![t] = IF heap[cache_at].last_refresh # <<>> /\ ~tlocal[t].force THEN "105" ELSE "110"]
          /\ UNCHANGED <<heap, cache_at, fetches, CACHE, tlocal>>
       \/ /\ tpc[t] = "105"
          /\ tpc' = [tpc EXCEPT ![t] = IF Fresh(Plain(heap[cache_at]), tlocal[t].force, tlocal[t].now) THEN "108" ELSE "110"]
          /\ UNCHANGED <<heap, cache_at, fetches, CACHE, tlocal>>
       \/ /\ tpc[t] = "108"
          /\ tlocal' = [tlocal EXCEPT ![t] = Returned_to(tlocal[t], cache_at)]
          /\ tpc' = [tpc EXCEPT ![t] = AfterReturn(t)]
          /\ UNCHANGED <<heap, cache_at, fetches, CACHE>>
       \/ /\ tpc[t] = "110"
          /\ \E outcome \in {"ok", "logs_failed"}, logs \in QueryItems(logs_container) :
                /\ tlocal' = [tlocal EXCEPT ![t].logs = fetch_all_data(outcome, logs, <<>>).logs]
                /\ tpc' = [tpc EXCEPT ![t] = IF outcome = "ok" THEN "110 insights" ELSE "111"]
          /\ UNCHANGED <<heap, cache_at, fetches, CACHE>>
       \/ /\ tpc[t] = "110 insights"
          /\ \E outcome \in {"ok", "insights_failed"}, ins \in QueryItems(insights_container) :
                tlocal' = [tlocal EXCEPT ![t].logs = fetch_all_data(outcome, tlocal[t].logs, ins).logs,
                                         ![t].insights = fetch_all_data(outcome, tlocal[t].logs, ins).insights]
          /\ tpc' = [tpc EXCEPT ![t] = "111"]
          /\ UNCHANGED <<heap, cache_at, fetches, CACHE>>
       \/ /\ tpc[t] = "111"
          /\ heap' = Rebind(heap, cache_at,
                            [logs |-> ListOf(fetches + 1, tlocal[t].logs),
                             insights |-> ListOf(fetches + 1, tlocal[t].insights),
                             last_refresh |-> <<tlocal[t].now>>]).heap
          /\ cache_at' = Rebind(heap, cache_at, heap[cache_at]).at
          /\ CACHE' = Plain(heap'[cache_at'])
          /\ fetches' = fetches + 1
          /\ tpc' = [tpc EXCEPT ![t] = "113"]
          /\ UNCHANGED tlocal
       \/ /\ tpc[t] = "113"
          /\ tlocal' = [tlocal EXCEPT ![t] = Returned_to(tlocal[t], cache_at)]
          /\ tpc' = [tpc EXCEPT ![t] = AfterReturn(t)]
          /\ UNCHANGED <<heap, cache_at, fetches, CACHE>>
       \/ /\ tpc[t] = "166 logs"
          /\ tlocal' = [tlocal EXCEPT ![t].read_logs = heap[tlocal[t].data].logs]
          /\ tpc' = [tpc EXCEPT ![t] = "166 insights"]
          /\ UNCHANGED <<heap, cache_at, fetches, CACHE>>
       \/ /\ tpc[t] = "166 insights"
          /\ tlocal' = [tlocal EXCEPT ![t].read_insights = heap[tlocal[t].data].insights, ![t].seen = cache_at]
          /\ tpc' = [tpc EXCEPT ![t] = "done"]
          /\ UNCHANGED <<heap, cache_at, fetches, CACHE>>
    /\ UNCHANGED <<clock, logs_container, insights_container, rcall>>
    /\ UNCHANGED <<qvars, cvars, hvars, evars, mvars, wvars, kvars>>

\* requests served at the same time while the store takes new documents
ThreadsNext ==
    \/ LogStored(log_error_billing, 1)
    \/ InsightStored("WARNING", 1)
    \/ \E t \in Threads : ThreadStep(t)

\* CACHE is bound to the dict of line 34 and no thread serves a request
ThreadsInit ==
    /\ heap = <<[logs |-> ListOf(0, <<>>), insights |-> ListOf(0, <<>>), last_refresh |-> <<>>]>>
    /\ cache_at = 1
    /\ fetches = 0
    /\ tpc = [t \in Threads |-> "idle"]
    /\ tlocal = [t \in Threads |-> NoLocals]

CacheNext ==
    \/ \E d \in {9, 10} : Tick(d)
    \/ LogStored(log_error_billing, MaxStored)
    \/ InsightStored("WARNING", MaxStored)
    \/ \E force \in BOOLEAN, outcome \in FetchOutcomes : RefreshCache(force, outcome)

ApiInit ==
    /\ clock = 0
    /\ logs_container = <<>>
    /\ insights_container = <<>>
    /\ CACHE = [logs |-> <<>>, insights |-> <<>>, last_refresh |-> <<>>]
    /\ rcall = <<>>
    /\ model = TRUE
    /\ scall = <<>>

\* no request has been made of the API
MainInit == hcall = <<>>

OtherInit == MainInit /\ WorkersInit /\ ThreadsInit /\ SaversInit

----------------------------------------------------------------------------
(* Insights_api/intelligent_search.py: intelligent_search *)

\* d.get(key, default) on a record of the store or on {} (written <<>>)
Get(d, key, default) == IF key \in DOMAIN d THEN d[key] ELSE default

\* str.strip()
Whitespace == {" ", "\t", "\n"}
RECURSIVE LStrip(_)
LStrip(s) == IF s # <<>> /\ s[1] \in Whitespace THEN LStrip(Tail(s)) ELSE s
RECURSIVE RStrip(_)
RStrip(s) == IF s # <<>> /\ s[Len(s)] \in Whitespace THEN RStrip(SubSeq(s, 1, Len(s) - 1)) ELSE s
Strip(s) == RStrip(LStrip(s))

\* l.get("Level", "").lower() in ["error", "critical"]
IsErrorLevel(l) == Lower(Get(l, "Level", <<>>)) \in {<<"e", "r", "r", "o", "r">>, <<"c", "r", "i", "t", "i", "c", "a", "l">>}

\* [l for l in logs if l.get("Level", "").lower() in ["error", "critical"]]
ErrorLogsOf(logs) == SelectSeq(logs, IsErrorLevel)

\* Counter(l.get("AppName", "Unknown") for l in error_logs): <<service, count>>
\* pairs in order of first occurrence
RECURSIVE CounterOf(_, _)
CounterOf(error_logs, acc) ==
    IF error_logs = <<>> THEN acc
    ELSE CounterOf(Tail(error_logs), Increment(acc, Get(error_logs[1], "AppName", s_Unknown)))

\* counts.most_common(n): by count descending, equal counts in order of
\* first occurrence
RECURSIVE MostCommon(_, _)
MostCommon(tally, n) ==
    IF tally = <<>> \/ n = 0 THEN <<>>
    ELSE LET best == CHOOSE i \in DOMAIN tally :
                         /\ \A j \in DOMAIN tally : tally[j][2] <= tally[i][2]
                         /\ \A j \in 1..(i - 1) : tally[j][2] < tally[i][2]
             rest == [k \in 1..(Len(tally) - 1) |-> IF k < best THEN tally[k] ELSE tally[k + 1]]
         IN <<tally[best]>> \o MostCommon(rest, n - 1)

\* the snapshot of least _ts
OldestOf(snapshots, default) ==
    IF snapshots = <<>> THEN default
    ELSE snapshots[CHOOSE i \in DOMAIN snapshots :
             /\ \A j \in DOMAIN snapshots : Get(snapshots[j], "_ts", 0) >= Get(snapshots[i], "_ts", 0)
             /\ \A j \in 1..(i - 1) : Get(snapshots[j], "_ts", 0) > Get(snapshots[i], "_ts", 0)]

\* max(insights, key=lambda x: x.get("_ts", 0), default=...): the first item
\* of greatest _ts
LatestOf(snapshots, default) ==
    IF snapshots = <<>> THEN default
    ELSE snapshots[CHOOSE i \in DOMAIN snapshots :
             /\ \A j \in DOMAIN snapshots : Get(snapshots[j], "_ts", 0) <= Get(snapshots[i], "_ts", 0)
             /\ \A j \in 1..(i - 1) : Get(snapshots[j], "_ts", 0) < Get(snapshots[i], "_ts", 0)]

\* ts.replace(minute=0, second=0, microsecond=0), times being in seconds
HourOf(t) == (t \div 3600) * 3600

\* the elements of a finite set of integers in ascending order
RECURSIVE Sorted(_)
Sorted(S) ==
    IF S = {} THEN <<>>
    ELSE LET least == CHOOSE x \in S : \A y \in S : x <= y
         IN <<least>> \o Sorted(S \ {least})

\* service_timelines: per service the hours of its error records, sorted,
\* each with the number of error records in it
ServiceTimelines(error_logs) ==
    [app \in {Get(error_logs[i], "AppName", s_Unknown) : i \in DOMAIN error_logs} |->
        LET mine == {i \in DOMAIN error_logs : Get(error_logs[i], "AppName", s_Unknown) = app}
            hours == Sorted({HourOf(error_logs[i].Timestamp) : i \in mine})
        IN [k \in DOMAIN hours |->
               [timestamp |-> hours[k],
                error_count |-> Cardinality({i \in mine : HourOf(error_logs[i].Timestamp) = hours[k]})]]]

\* the detail block of a service of counts: the error records whose
\* AppName equals it case-insensitively and the greatest of their timestamps
ServiceDetails(service, error_logs) ==
    LET svc == {i \in DOMAIN error_logs : Lower(Get(error_logs[i], "AppName", <<>>)) = Lower(service)}
    IN [service |-> service,
        error_count |-> Cardinality(svc),
        last_error_timestamp |->
            CHOOSE t \in {error_logs[i].Timestamp : i \in svc} :
                \A i \in svc : error_logs[i].Timestamp <= t]

\* for service in counts: if service.lower() in q: result["service_details"] = ...
RECURSIVE WithServiceDetails(_, _, _, _)
WithServiceDetails(result, tally, q, error_logs) ==
    IF tally = <<>> THEN result
    ELSE WithServiceDetails(
             IF Contains(q, Lower(tally[1][1]))
             THEN [service_details |-> ServiceDetails(tally[1][1], error_logs)] @@ result
             ELSE result,
             Tail(tally), q, error_logs)

\* Branch A (lines 173-211): the result of the service-level analysis
ServiceLevel(query, q, logs, snapshots, now) ==
    WithServiceDetails(
        [type |-> "service_level",
         timestamp |-> now,
         query |-> query,
         total_error_services |-> Len(CounterOf(ErrorLogsOf(logs), <<>>)),
         top_error_services |->
             LET top == MostCommon(CounterOf(ErrorLogsOf(logs), <<>>), 5)
             IN [k \in DOMAIN top |-> [service |-> top[k][1], error_count |-> top[k][2]]],
         latest_status |-> Get(LatestOf(snapshots, <<>>), "status", "N/A"),
         latest_error_rate |-> Get(LatestOf(snapshots, <<>>), "error_rate_percent", 0),
         per_service_timeline |-> ServiceTimelines(ErrorLogsOf(logs))],
        CounterOf(ErrorLogsOf(logs), <<>>), q, ErrorLogsOf(logs))

\* round(sum(deltas) / len(deltas), 2) for the gaps, in hours, between
\* consecutive CRITICAL snapshots in list order, times being in seconds; in
\* hundredths of an hour.  A quotient exactly halfway between two
\* hundredths goes where the floating-point value falls: both are possible.
MtbfValues(critical_times) ==
    IF Len(critical_times) > 1
    THEN LET n == Len(critical_times) - 1
             seconds == critical_times[1] - critical_times[Len(critical_times)]
             q == (seconds * 100) \div (3600 * n)
             r == (seconds * 100) % (3600 * n)
         IN IF 2 * r < 3600 * n THEN {<<q>>}
            ELSE IF 2 * r > 3600 * n THEN {<<q + 1>>}
            ELSE {<<q>>, <<q + 1>>}
    ELSE {<<>>}

\* mtbf or "N/A": <<>> stands for "N/A", <<h>> for h hundredths of an hour
OrNotAvailable(mtbf) == IF mtbf = <<>> \/ mtbf = <<0>> THEN <<>> ELSE mtbf

\* the trend taken from all the statuses
TrendOfAll(statuses) ==
    IF Cardinality({i \in DOMAIN statuses : statuses[i] = "CRITICAL"}) > 1
    THEN "Degrading" ELSE "Stable"

\* "Degrading" if statuses[:3].count("CRITICAL") > 1 else "Stable"
TrendOf(statuses) ==
    IF Cardinality({i \in DOMAIN statuses : i <= 3 /\ statuses[i] = "CRITICAL"}) > 1
    THEN "Degrading" ELSE "Stable"

\* timeline: the hours of the snapshots, sorted, each with the sum of the
\* error_count of its snapshots
HealthTimeline(snapshots) ==
    LET RECURSIVE SumOver(_)
        SumOver(I) ==
            IF I = {} THEN 0
            ELSE LET i == CHOOSE x \in I : TRUE
                 IN Get(snapshots[i], "error_count", 0) + SumOver(I \ {i})
        hours == Sorted({HourOf(snapshots[i].timestamp) : i \in DOMAIN snapshots})
    IN [k \in DOMAIN hours |->
           [timestamp |-> hours[k],
            error_count |-> SumOver({i \in DOMAIN snapshots : HourOf(snapshots[i].timestamp) = hours[k]})]]

\* Branch B (lines 217-252): the results the system-health analysis can
\* give; the one without a type is returned without being saved
SystemHealthResults(query, snapshots, now) ==
    IF snapshots = <<>> THEN {[message |-> "No insights available."]}
    ELSE LET latest == LatestOf(snapshots, <<>>)
             critical == SelectSeq(snapshots, LAMBDA i : Get(i, "status", "") = "CRITICAL")
         IN {[type |-> "system_health",
              timestamp |-> now,
              query |-> query,
              latest_status |-> Get(latest, "status", "UNKNOWN"),
              error_rate_percent |-> Get(latest, "error_rate_percent", 0),
              top_error_service |-> Get(latest, "top_error_service", <<"N", "/", "A">>),
              mean_time_between_failures_hrs |-> OrNotAvailable(mtbf),
              trend |-> TrendOf([i \in DOMAIN snapshots |-> Get(snapshots[i], "status", "UNKNOWN")]),
              records_analyzed |-> Len(snapshots),
              timeline |-> HealthTimeline(snapshots)] :
             mtbf \in MtbfValues([i \in DOMAIN critical |-> critical[i].timestamp])}

\* FAILURE_KEYWORDS
FAILURE_KEYWORDS ==
    {<<"f", "a", "i", "l">>, <<"f", "a", "i", "l", "e", "d">>, <<"f", "a", "i", "l", "u", "r", "e">>, <<"e", "r", "r", "o", "r">>, <<"c", "r", "i", "t", "i", "c", "a", "l">>, <<"i", "s", "s", "u", "e">>, <<"c", "r", "a", "s", "h">>}

\* the candidates left as logs + insights whatever the query
CandidatesUnfiltered(q, logs, snapshots) == logs \o snapshots

\* combined at line 275: logs + insights, or the error/critical logs when
\* the query has a failure keyword and there is such a log
Candidates(q, logs, snapshots) ==
    IF (\E word \in FAILURE_KEYWORDS : Contains(q, word)) /\ ErrorLogsOf(logs) # <<>>
    THEN ErrorLogsOf(logs)
    ELSE logs \o snapshots

\* the rankings torch.topk can give: k distinct candidates out of n, the
\* similarity values being the embedding provider's
Rankings(n, k) ==
    {r \in [1..k -> 1..n] : \A i, j \in 1..k : r[i] = r[j] => i = j}

\* the number of matches semantic_search asks torch.topk for
TopK(top_k, n) == IF top_k < n THEN top_k ELSE n

\* the entry of results for one ranked candidate (scores left out);
\* Timestamp is <<>> for "N/A"
MatchOf(log) ==
    [AppName |-> Get(log, "AppName", s_Unknown),
     Level |-> Get(log, "Level", <<"N", "/", "A">>),
     Message |-> Prefix(Get(log, "Message", <<>>), 150),
     Timestamp |-> IF "Timestamp" \in DOMAIN log THEN <<log.Timestamp>> ELSE <<>>,
     Severity |-> Get(log, "Severity", <<"N", "/", "A">>)]

\* semantic_search(query, logs, top_k): how it ends and the matches it
\* returns for a ranking; encode_texts raises when no model is loaded
semantic_search(query, candidates, top_k, loaded, ranking) ==
    IF candidates = <<>> \/ query = <<>> THEN [end |-> "returned", matches |-> <<>>]
    ELSE IF ~loaded THEN [end |-> "raised", matches |-> <<>>]
    ELSE [end |-> "returned", matches |-> [i \in DOMAIN ranking |-> MatchOf(candidates[ranking[i]])]]

\* Branch C (lines 277-283): the result of the similarity fallback
SemanticResult(query, matches, now) ==
    [type |-> "semantic",
     timestamp |-> now,
     query |-> query,
     count |-> Len(matches),
     semantic_matches |-> matches]

\* the branches tried in the order system-health, service-level
StrategyOfHealthFirst(q) ==
    IF Contains(q, <<"s", "y", "s", "t", "e", "m">>) \/ Contains(q, <<"s", "t", "a", "b", "l", "e">>) \/ Contains(q, <<"h", "e", "a", "l", "t", "h">>) \/ Contains(q, <<"t", "r", "e", "n", "d">>)
    THEN "system_health"
    ELSE IF Contains(q, <<"e", "r", "r", "o", "r">>) \/ Contains(q, <<"s", "e", "r", "v", "i", "c", "e">>) \/ Contains(q, <<"c", "r", "i", "t", "i", "c", "a", "l">>)
    THEN "service_level"
    ELSE "semantic"

\* the branch of intelligent_search taken for q (lines 172, 216, 257)
StrategyOf(q) ==
    IF Contains(q, <<"e", "r", "r", "o", "r">>) \/ Contains(q, <<"s", "e", "r", "v", "i", "c", "e">>) \/ Contains(q, <<"c", "r", "i", "t", "i", "c", "a", "l">>)
    THEN "service_level"
    ELSE IF Contains(q, <<"s", "y", "s", "t", "e", "m">>) \/ Contains(q, <<"s", "t", "a", "b", "l", "e">>) \/ Contains(q, <<"h", "e", "a", "l", "t", "h">>) \/ Contains(q, <<"t", "r", "e", "n", "d">>)
    THEN "system_health"
    ELSE "semantic"

----------------------------------------------------------------------------
(* Insights_api/main.py: GET /health *)

\* int(s) succeeds: an optional sign and one or more digits, surrounding
\* whitespace ignored
IsIntLiteral(s) ==
    LET body == Strip(s)
        digits == IF body # <<>> /\ body[1] \in {"+", "-"} THEN Tail(body) ELSE body
    IN /\ digits # <<>>
       /\ \A i \in DOMAIN digits : \E k \in DOMAIN DigitChars : DigitChars[k] = digits[i]

\* the number a string of digits writes
RECURSIVE DigitsValue(_)
DigitsValue(digits) ==
    IF digits = <<>> THEN 0
    ELSE 10 * DigitsValue(SubSeq(digits, 1, Len(digits) - 1))
         + (CHOOSE k \in 0..9 : DigitChars[k + 1] = digits[Len(digits)])

\* int(s) for an s it accepts
IntOf(s) ==
    LET body == Strip(s)
    IN IF body[1] = "-" THEN 0 - DigitsValue(Tail(body))
       ELSE IF body[1] = "+" THEN DigitsValue(Tail(body))
       ELSE DigitsValue(body)

\* datetime.fromisoformat(s) for the date form YYYY-MM-DD: <<t>> with t the
\* seconds from 2024-01-01T00:00:00 to the date (months counted as 31 days,
\* which keeps the order of dates), <<>> when it raises ValueError
fromisoformat(s) ==
    IF /\ Len(s) = 10
       /\ s[5] = "-" /\ s[8] = "-"
       /\ IsIntLiteral(SubSeq(s, 1, 4)) /\ IsIntLiteral(SubSeq(s, 6, 7)) /\ IsIntLiteral(SubSeq(s, 9, 10))
       /\ \A i \in {1, 6, 9} : s[i] \notin {"+", "-", " "}
       /\ DigitsValue(SubSeq(s, 1, 4)) >= 1
       /\ DigitsValue(SubSeq(s, 6, 7)) \in 1..12
       /\ DigitsValue(SubSeq(s, 9, 10)) \in 1..31
    THEN <<((DigitsValue(SubSeq(s, 1, 4)) - 2024) * 372 + (DigitsValue(SubSeq(s, 6, 7)) - 1) * 31
             + DigitsValue(SubSeq(s, 9, 10)) - 1) * 86400>>
    ELSE <<>>

\* Lines 181-193: the time filter parsed from since (<<>> for None, <<t>>
\* for a time), or the exception raised inside the try block: the
\* ValueError of int(), or the HTTPException with status 400
ParseSince(since, now) ==
    IF since = <<>> THEN [raised |-> "none", time_filter |-> <<>>]
    ELSE IF since[Len(since)] = "h"
    THEN IF IsIntLiteral(SubSeq(since, 1, Len(since) - 1))
         THEN [raised |-> "none", time_filter |-> <<now - 3600 * IntOf(SubSeq(since, 1, Len(since) - 1))>>]
         ELSE [raised |-> "ValueError", time_filter |-> <<>>]
    ELSE IF since[Len(since)] = "d"
    THEN IF IsIntLiteral(SubSeq(since, 1, Len(since) - 1))
         THEN [raised |-> "none", time_filter |-> <<now - 86400 * IntOf(SubSeq(since, 1, Len(since) - 1))>>]
         ELSE [raised |-> "ValueError", time_filter |-> <<>>]
    ELSE IF fromisoformat(since) # <<>>
    THEN [raised |-> "none", time_filter |-> fromisoformat(since)]
    ELSE [raised |-> "HTTPException(400)", time_filter |-> <<>>]

\* Lines 196-201: of the snapshots ordered newest first, those at or after
\* the time filter, or the first last_n when there is no filter
HealthItems(time_filter, last_n, ordered) ==
    IF time_filter # <<>> THEN SelectSeq(ordered, LAMBDA doc : doc.timestamp >= time_filter[1])
    ELSE Prefix(ordered, last_n)

\* Lines 203-248: the response for the items the query gave
HealthSummaries(items) ==
    IF items = <<>> THEN {[status_code |-> 200, status |-> "UNKNOWN"]}
    ELSE LET critical == SelectSeq(items, LAMBDA doc : Get(doc, "status", "") = "CRITICAL")
         IN {[status_code |-> 200,
              latest_status |-> Get(items[1], "status", "UNKNOWN"),
              status_trend |-> IF \E i \in DOMAIN items : i <= 3 /\ Get(items[i], "status", "UNKNOWN") = "CRITICAL"
                               THEN "Degrading" ELSE "Improving",
              mean_time_between_failures_hrs |-> OrNotAvailable(mtbf),
              records_analyzed |-> Len(items)] :
             mtbf \in MtbfValues([i \in DOMAIN critical |-> critical[i].timestamp])}

\* except Exception as e: raise HTTPException(status_code=500, ...) of line
\* 250-251, which encloses the whole body: HTTPException is an Exception
HealthExceptClause(raised) == [status_code |-> 500]

\* get_system_health(since, last_n): the responses it can give, ordered
\* being what the store gives for ORDER BY c.timestamp DESC and outcome how
\* query_items ends
get_system_health(since, last_n, now, outcome, ordered) ==
    IF ParseSince(since, now).raised # "none" THEN {HealthExceptClause(ParseSince(since, now).raised)}
    ELSE IF outcome # "ok" THEN {HealthExceptClause("CosmosHttpResponseError")}
    ELSE HealthSummaries(HealthItems(ParseSince(since, now).time_filter, last_n, ordered))

----------------------------------------------------------------------------

QueueInit ==
    /\ COSMOS_CONN \in BOOLEAN
    /\ _container = "unset"
    /\ store = <<>>
    /\ urandom = 0
    /\ qpc = "idle"
    /\ msg = body_text
    /\ enriched_log = <<>>
    /\ attempts = <<>>
    /\ qresult = "none"
    /\ deliveries = 0

CosmosInit ==
    /\ insights = <<>>
    /\ documents = <<>>
    /\ iterable = "list"
    /\ cresult = "none"
    /\ presult = "none"
    /\ counts = NoCounts
    /\ upsert_response = "none"
    /\ written = 0
    /\ runs = 0

Init == QueueInit /\ CosmosInit /\ HistoryInit /\ ApiInit /\ OtherInit

\* The queue trigger alone: the aggregator state stays as constructed.
SpecQueue == Init /\ [][QueueNext]_vars

\* The change-feed trigger alone: the queue state stays as constructed.
SpecCosmos == Init /\ [][CosmosNext]_vars

\* The counters of a batch of error_count Error records of one service
\* followed by info_count Information records
CountsOfUniform(error_count, info_count) ==
    [error_count |-> error_count, warning_count |-> 0, info_count |-> info_count,
     service_errors |-> IF error_count > 0
                        THEN << <<Str(<<"B", "i", "l", "l", "i", "n", "g">>), error_count>> >>
                        ELSE <<>>,
     processed |-> error_count + info_count, raised |-> FALSE]

InitStatus ==
    /\ QueueInit
    /\ insights = <<>>
    /\ documents = <<>>
    /\ iterable = "list"
    /\ cresult = "none"
    /\ presult = "none"
    /\ counts \in {CountsOfUniform(e, o) : e \in 0..MaxErrors, o \in 0..MaxOthers}
    /\ upsert_response = "none"
    /\ written = 0
    /\ runs = 0
    /\ HistoryInit
    /\ ApiInit
    /\ OtherInit

StatusNext == \E response \in Responses : Summarise(response)

\* The summary step of the aggregator (error rate, status, upsert) on the
\* counters of batches of up to MaxErrors + MaxOthers records.
SpecStatus == InitStatus /\ [][StatusNext]_vars

\* Batches of Error records of two services and Information records
BatchesUpTo(n) == UNION {[1..k -> {doc_error_billing, doc_error_auth, doc_info}] : k \in 0..n}

\* 4 Error records of Billing and 6 Information records
batch_4_errors_6_info ==
    [i \in 1..10 |-> IF i \in {2, 5, 6, 9} THEN doc_error_billing ELSE doc_info]

InitTop ==
    /\ QueueInit
    /\ insights = <<>>
    /\ documents \in BatchesUpTo(MaxTopBatch) \cup {batch_4_errors_6_info}
    /\ iterable = "list"
    /\ cresult = "none"
    /\ presult = "none"
    /\ counts = NoCounts
    /\ upsert_response = "none"
    /\ written = 0
    /\ runs = 0
    /\ HistoryInit
    /\ ApiInit
    /\ OtherInit

TopNext == \E response \in Responses : ProcessCosmosChanges(response)

\* One process_cosmos_changes call on a delivered batch of up to MaxTopBatch
\* log records, or on the batch of 4 Error and 6 Information records.
SpecTop == InitTop /\ [][TopNext]_vars

\* an empty history file, and files holding [] and {}
EmptyStores == {Absent, Unparsable, Json(JsonList(<<>>)), Json(JsonObject(<<>>))}

InitHistory ==
    /\ QueueInit
    /\ CosmosInit
    /\ history_file \in EmptyStores
    /\ entry = <<>>
    /\ appended = [c \in Categories |-> <<>>]
    /\ ApiInit
    /\ OtherInit

\* save_history calls, one after the other, on a history store that starts
\* empty or absent
SpecHistory == InitHistory /\ [][HistoryNext]_vars

\* refresh_cache calls, forced or not, as time passes and the store grows
SpecCache == Init /\ [][CacheNext]_vars

\* the calls the similarity fallback can make of the query
SemanticCalls(query, q, top_k, combined, now, loaded) ==
    {[q |-> q, strategy |-> "semantic", combined |-> combined,
      end |-> semantic_search(query, combined, top_k, loaded, ranking).end,
      returned |-> IF semantic_search(query, combined, top_k, loaded, ranking).end = "raised" THEN <<>>
                   ELSE <<SemanticResult(query, semantic_search(query, combined, top_k, loaded, ranking).matches, now)>>] :
        ranking \in Rankings(Len(combined), TopK(top_k, Len(combined)))}

\* intelligent_search after q = query.lower().strip(): the branch taken,
\* the candidates of the similarity fallback, how the call ends and the
\* result it returns
Dispatch(query, q, top_k, logs, snapshots, now, loaded) ==
    IF StrategyOf(q) = "service_level"
    THEN {[q |-> q, strategy |-> "service_level", combined |-> <<>>, end |-> "returned",
           returned |-> <<ServiceLevel(query, q, logs, snapshots, now)>>]}
    ELSE IF StrategyOf(q) = "system_health"
    THEN {[q |-> q, strategy |-> "system_health", combined |-> <<>>, end |-> "returned",
           returned |-> <<result>>] : result \in SystemHealthResults(query, snapshots, now)}
    ELSE SemanticCalls(query, q, top_k, Candidates(q, logs, snapshots), now, loaded)

\* intelligent_search(query, top_k) on the data refresh_cache(force=True)
\* returned
intelligent_search(query, top_k, logs, snapshots, now, loaded) ==
    Dispatch(query, Strip(Lower(query)), top_k, logs, snapshots, now, loaded)

\* the call ends: save_history(result) for a result with a type
SearchEnds(query, call) ==
    /\ scall' = <<[query |-> query] @@ call>>
    /\ IF call.returned # <<>> /\ "type" \in DOMAIN call.returned[1]
       THEN /\ history_file' = save_history(history_file, call.returned[1])
            /\ entry' = call.returned
            /\ appended' = [appended EXCEPT ![call.returned[1].type] = Append(@, call.returned[1])]
       ELSE UNCHANGED hvars

\* intelligent_search(query, top_k), the first call made on the store
IntelligentSearch(query, top_k, outcome) ==
    /\ scall = <<>>
    /\ \E logs \in QueryItems(logs_container), snapshots \in QueryItems(insights_container) :
         \E r \in {refresh_cache(CACHE, TRUE, clock, outcome, logs, snapshots)} :
            /\ CACHE' = r.cache
            /\ rcall' = <<r.call>>
            /\ IF r.call.end = "raised"
               THEN /\ scall' = <<[query |-> query, q |-> <<>>, strategy |-> "none", combined |-> <<>>,
                                    end |-> "raised", returned |-> <<>>]>>
                    /\ UNCHANGED hvars
               ELSE \E call \in intelligent_search(query, top_k, r.cache.logs, r.cache.insights, clock, model) :
                        SearchEnds(query, call)
    /\ UNCHANGED <<clock, logs_container, insights_container, model>>
    /\ UNCHANGED <<qvars, cvars, ovars>>

\* queries, one or more for each branch
query_service_errors == <<"s", "e", "r", "v", "i", "c", "e", " ", "e", "r", "r", "o", "r", "s">>
query_errors_in_billing == <<"E", "r", "r", "o", "r", "s", " ", "i", "n", " ", "B", "I", "L", "L", "I", "N", "G">>
query_system_health == <<"S", "y", "s", "t", "e", "m", " ", "H", "e", "a", "l", "t", "h">>
query_trend == <<"t", "r", "e", "n", "d">>
query_payment_failed == <<"p", "a", "y", "m", "e", "n", "t", " ", "f", "a", "i", "l", "e", "d">>
query_payment_status == <<"p", "a", "y", "m", "e", "n", "t", " ", "s", "t", "a", "t", "u", "s">>
query_blank == <<" ">>
query_empty == <<>>
Queries ==
    {query_service_errors, query_errors_in_billing, query_system_health, query_trend,
     query_payment_failed, query_payment_status, query_blank, query_empty}

TopKs == {1, 2}

SearchNext ==
    \E query \in Queries, top_k \in TopKs, outcome \in FetchOutcomes :
        IntelligentSearch(query, top_k, outcome)

\* the stores of up to n log records, written one second apart
LogStores(n) ==
    UNION {{[i \in 1..k |-> LogAt(l[i], i)] :
               l \in [1..k -> {log_error_billing, log_info_billing, log_critical_auth}]} : k \in 0..n}

\* the stores of up to n snapshots, written one second apart or two in
\* each second
SnapshotStores(n) ==
    UNION {{[i \in 1..k |-> SnapshotAt(st[i], IF paired THEN (i + 1) \div 2 ELSE i)] :
               st \in [1..k -> {"STABLE", "WARNING", "CRITICAL"}], paired \in BOOLEAN} : k \in 0..n}

\* a history file with one service_level entry and ten semantic entries,
\* and one whose semantic key holds null
history_populated ==
    Json(JsonObject([c \in Categories |->
        IF c = "service_level" THEN JsonList(<<EntryOf("service_level", 1)>>)
        ELSE IF c = "semantic" THEN JsonList([n \in 1..10 |-> EntryOf("semantic", n)])
        ELSE JsonList(<<>>)]))
history_null_category ==
    Json(JsonObject([c \in Categories |-> IF c = "semantic" THEN Scalar ELSE JsonList(<<>>)]))

InitSearch ==
    /\ QueueInit
    /\ CosmosInit
    /\ \/ /\ insights_container \in SnapshotStores(MaxSnapshots)
          /\ logs_container = <<LogAt(log_error_billing, 1)>>
          /\ history_file = Absent
          /\ model = TRUE
       \/ /\ insights_container \in SnapshotStores(1)
          /\ logs_container \in LogStores(MaxLogs)
          /\ history_file = Absent
          /\ model \in BOOLEAN
       \/ /\ insights_container \in SnapshotStores(1)
          /\ logs_container \in LogStores(1)
          /\ history_file \in {history_populated, history_null_category}
          /\ model = TRUE
    /\ entry = <<>>
    /\ appended = [c \in Categories |-> FileEntriesOf(history_file, c)]
    /\ clock = MaxClock
    /\ CACHE = [logs |-> <<>>, insights |-> <<>>, last_refresh |-> <<>>]
    /\ rcall = <<>>
    /\ scall = <<>>
    /\ OtherInit

\* One intelligent_search call on a store of one log record and up to
\* MaxSnapshots snapshots, on a store of up to MaxLogs log records and at
\* most one snapshot with the model loaded or not, and on a small store with
\* a history file that holds entries or a null category
SpecSearch == InitSearch /\ [][SearchNext]_vars

\* the words queries are made of, in various cases
Words ==
    {<<"E", "r", "r", "o", "r">>, <<"S", "E", "R", "V", "I", "C", "E">>, <<"c", "r", "i", "t", "i", "c", "a", "l">>, <<"S", "y", "s", "t", "e", "m">>, <<"s", "t", "a", "b", "l", "e">>, <<"H", "E", "A", "L", "T", "H">>,
     <<"T", "r", "e", "n", "d">>, <<"f", "a", "i", "l", "e", "d">>, <<"p", "a", "y", "m", "e", "n", "t">>}

\* the queries of 1 to n words, separated by a space
RECURSIVE QueriesOf(_)
QueriesOf(n) ==
    IF n = 1 THEN Words
    ELSE QueriesOf(n - 1) \cup {head \o <<" ">> \o word : head \in QueriesOf(n - 1), word \in Words}

DispatchNext ==
    \E query \in QueriesOf(MaxWords), top_k \in TopKs, outcome \in FetchOutcomes :
        IntelligentSearch(query, top_k, outcome)

InitDispatch ==
    /\ QueueInit
    /\ CosmosInit
    /\ HistoryInit
    /\ clock = MaxClock
    /\ logs_container = <<LogAt(log_error_billing, 1)>>
    /\ insights_container \in {<<>>, <<SnapshotAt("WARNING", 1)>>}
    /\ CACHE = [logs |-> <<>>, insights |-> <<>>, last_refresh |-> <<>>]
    /\ rcall = <<>>
    /\ model = TRUE
    /\ scall = <<>>
    /\ OtherInit

\* One intelligent_search call for each query of up to MaxWords words
SpecDispatch == InitDispatch /\ [][DispatchNext]_vars

\* One refresh_cache or intelligent_search call by each of MaxThreads
\* threads, in any interleaving of their steps
SpecThreads == Init /\ [][ThreadsNext]_vars

\* a field of a stored record as the query engine gets it: the text of a
\* string, any other value as it is
FieldOf(doc, key) == IF DictGet(doc, Str(key)).t = "str" THEN DictGet(doc, Str(key)).s ELSE DictGet(doc, Str(key))

\* l.get("Level", "") of a stored record
LevelValue(doc) ==
    IF \E i \in DOMAIN doc : doc[i][1] = Str(s_Level) THEN DictGet(doc, Str(s_Level)) ELSE Str(<<>>)

\* the record of the log store as an item of the query engine's cache, _ts
\* being the store's stamp; a Timestamp that is an ISO date is held as its
\* time
AsLog(doc, ts) ==
    [AppName |-> FieldOf(doc, s_AppName),
     Level |-> FieldOf(doc, s_Level),
     Message |-> FieldOf(doc, s_Message),
     Severity |-> FieldOf(doc, s_Severity),
     Timestamp |-> IF DictGet(doc, Str(s_Timestamp)).t = "str" /\ fromisoformat(DictGet(doc, Str(s_Timestamp)).s) # <<>>
                   THEN fromisoformat(DictGet(doc, Str(s_Timestamp)).s)[1]
                   ELSE DictGet(doc, Str(s_Timestamp)),
     _ts |-> ts]

\* the insight document of the aggregator as an item of the cache
AsSnapshot(doc) == doc @@ [_ts |-> doc.timestamp]

\* the record passes the test of lines 173 and 269
IsErrorRecord(doc) == LevelValue(doc).t = "str" /\ IsErrorLevel([Level |-> LevelValue(doc).s])

\* Lines 173-206 raise on the records: .lower() of a Level that is not a
\* string (line 173); for an error record, Counter on an unhashable AppName
\* (174), .replace of a Timestamp that is None or not a string, or
\* fromisoformat of one that is not an ISO time (181), .lower() of an
\* AppName that is not a string (200)
ServiceLevelRaises(docs) ==
    \/ \E i \in DOMAIN docs : LevelValue(docs[i]).t # "str"
    \/ \E i \in DOMAIN docs :
          /\ IsErrorRecord(docs[i])
          /\ \/ DictGet(docs[i], Str(s_AppName)).t # "str"
             \/ DictGet(docs[i], Str(s_Timestamp)).t # "str"
             \/ fromisoformat(DictGet(docs[i], Str(s_Timestamp)).s) = <<>>

\* Lines 217-232 raise on the snapshots: i["timestamp"] of a snapshot
\* without that key
SystemHealthRaises(snapshots) == \E i \in DOMAIN snapshots : "timestamp" \notin DOMAIN snapshots[i]

\* the rule-based strategy of the query raises on what the refresh gave
RuleRaises(q, docs, snapshots) ==
    \/ StrategyOf(q) = "service_level" /\ ServiceLevelRaises(docs)
    \/ StrategyOf(q) = "system_health" /\ SystemHealthRaises(snapshots)

\* intelligent_search(query, top_k), the first call made, on the log store
\* the queue trigger wrote and the insight store the aggregator wrote
PipelineSearch(query, top_k, outcome) ==
    /\ scall = <<>>
    /\ qpc = "idle"
    /\ LET r == refresh_cache(CACHE, TRUE, clock, outcome,
                              [i \in DOMAIN store |-> AsLog(store[Len(store) + 1 - i], Len(store) + 1 - i)],
                              [i \in DOMAIN insights |-> AsSnapshot(insights[Len(insights) + 1 - i])])
           fetched == r.call.end = "returned" /\ outcome = "ok"
       IN /\ CACHE' = r.cache
          /\ rcall' = <<r.call>>
          /\ IF r.call.end = "raised" \/ RuleRaises(Strip(Lower(query)), IF fetched THEN store ELSE <<>>, IF fetched THEN insights ELSE <<>>)
             THEN /\ scall' = <<[query |-> query, q |-> Strip(Lower(query)), strategy |-> StrategyOf(Strip(Lower(query))),
                                  combined |-> <<>>, end |-> "raised", returned |-> <<>>]>>
                  /\ UNCHANGED hvars
             ELSE \E call \in intelligent_search(query, top_k, r.cache.logs, r.cache.insights, clock, model) :
                      SearchEnds(query, call)
    /\ UNCHANGED <<clock, logs_container, insights_container, model>>
    /\ UNCHANGED <<qvars, cvars, ovars>>

\* the change feed of the log store delivers after a record was stored; the
\* upserts of the run succeed or fail without a retry
PipelineNext ==
    \/ \E body \in PipelineBodies : ReceiveMessage(body)
    \/ \E response \in {"ok", "http_error"} : UpsertAttempt(response)
    \/ store # <<>> /\ qpc = "idle" /\ ChangeFeedDoc(doc_error_billing)
    \/ \E response \in {"ok", "http_error"} : qpc = "idle" /\ ProcessCosmosChanges(response)
    \/ \E query \in {query_service_errors, query_system_health}, outcome \in FetchOutcomes :
          PipelineSearch(query, 1, outcome)

\* Messages go through the queue trigger into the log store, batches
\* through the aggregator into the insight store, and one rule-based
\* intelligent_search call is made on the two stores
SpecPipeline == Init /\ [][PipelineNext]_vars

InitSavers ==
    /\ QueueInit
    /\ CosmosInit
    /\ history_file \in EmptyStores \cup {history_null_category}
    /\ entry = <<>>
    /\ appended = [c \in Categories |-> <<>>]
    /\ ApiInit
    /\ OtherInit

\* One save_history call by each of MaxSavers threads, in any interleaving
\* of their steps, on a history store that starts empty or absent, or
\* holds null under a category
SpecSavers == InitSavers /\ [][SaversNext]_vars

\* One _get_container call by each of MaxWorkers workers, in any
\* interleaving of their steps
SpecContainer == Init /\ [][ContainerNext]_vars

\* GET /health?since=...&last_n=..., the first request made of the store
\* (the endpoint keeps no state between requests)
GetSystemHealth(since, last_n, outcome) ==
    /\ hcall = <<>>
    /\ \E ordered \in QueryItems(insights_container) :
         \E response \in get_system_health(since, last_n, clock, outcome, ordered) :
            hcall' = <<[since |-> since, last_n |-> last_n, outcome |-> outcome] @@ response>>
    /\ UNCHANGED <<qvars, cvars, hvars, avars, evars, wvars, tvars, kvars>>

\* values of since: none, relative, absolute, and malformed ones
Sinces ==
    {<<>>, <<"2", "h">>, <<"1", "d">>, <<"-", "1", "h">>, <<"2", "0", "2", "4", "-", "0", "1", "-", "0", "1">>,
     <<"2", "0", "2", "4", "-", "0", "1", "-", "0", "2">>,
     <<"x", "h">>, <<"h">>, <<"1", ".", "5", "d">>, <<"y", "e", "s", "t", "e", "r", "d", "a", "y">>,
     <<"2", "0", "2", "4", "-", "1", "3", "-", "0", "1">>, <<"s", "o", "o", "n">>}

HealthNext ==
    \E since \in Sinces, last_n \in 1..MaxLastN, outcome \in {"ok", "failed"} :
        GetSystemHealth(since, last_n, outcome)

InitHealth ==
    /\ QueueInit
    /\ CosmosInit
    /\ HistoryInit
    /\ clock = MaxClock
    /\ logs_container = <<>>
    /\ insights_container \in SnapshotStores(MaxHealthSnapshots)
    /\ CACHE = [logs |-> <<>>, insights |-> <<>>, last_refresh |-> <<>>]
    /\ rcall = <<>>
    /\ model = TRUE
    /\ scall = <<>>
    /\ OtherInit

\* GET /health requests on stores of up to MaxHealthSnapshots snapshots
SpecHealth == InitHealth /\ [][HealthNext]_vars

Next == QueueNext \/ CosmosNext \/ HistoryNext \/ CacheNext \/ SearchNext \/ DispatchNext \/ HealthNext \/ ContainerNext \/ ThreadsNext \/ SaversNext \/ PipelineNext

Spec == Init /\ [][Next]_vars

----------------------------------------------------------------------------
(* Properties of the queue trigger (SpecQueue) *)

\* two characters are the same letter, whatever the case
SameLetter(a, b) ==
    \/ a = b
    \/ \E k \in DOMAIN UpperChars :
          {a, b} = {UpperChars[k], LowerChars[k]}

\* text is the word, whatever the case
SameWord(text, word) ==
    Len(text) = Len(word) /\ \A j \in DOMAIN word : SameLetter(text[j], word[j])

\* the word occurs in text, whatever the case
Mentions(text, word) ==
    \E i \in 1..(Len(text) - Len(word) + 1) : SameWord(SubSeq(text, i, i + Len(word) - 1), word)

IdOf(doc) == DictGet(doc, Str(s_id))
Succeeded == {i \in DOMAIN attempts : attempts[i] = "ok"}
LastStored == qpc = "idle" /\ attempts # <<>> /\ attempts[Len(attempts)] = "ok"

\* C1: the log store never holds two records with the same id, and once a
\* message with a non-empty request id has been stored, the store holds
\* exactly one record with that request id, the record of that message.
C1_OneRecordPerRequestId ==
    /\ \A i, j \in DOMAIN store : IdOf(store[i]) = IdOf(store[j]) => i = j
    /\ (LastStored /\ msg \in WithRequestId) =>
          /\ Cardinality({i \in DOMAIN store : IdOf(store[i]) = RequestIds[msg]}) = 1
          /\ \E i \in DOMAIN store : store[i] = enriched_log

\* A record of request id r1 stored before the record of r2 has been
\* replaced in place by the message just stored.
C1_Witness ==
    /\ LastStored
    /\ msg = body_r1_info
    /\ Len(store) = 2
    /\ store[1] = enriched_log
    /\ IdOf(store[1]) = Str(<<"r", "1">>)
    /\ IdOf(store[2]) = Str(<<"r", "2">>)

\* C2: a call that returned normally made exactly one successful upsert.
C2_ReturnedAfterOneUpsert ==
    qresult = "returned" => Cardinality(Succeeded) = 1

\* C3: when all 5 upsert attempts of a call were throttled, the call raised.
C3_ExhaustedRetriesRaise ==
    (qpc = "idle" /\ Len(attempts) = 5 /\ \A i \in DOMAIN attempts : attempts[i] = "throttled")
        => qresult = "raised"

PayloadOf(body) == Unwrap(_safe_json_load(body))
Payloads == [b \in Bodies |-> PayloadOf(b)]

\* the payload carries, under one of the names and whatever the case of its
\* key, a value that is not null
HasField(payload, names) ==
    /\ IsDict(payload)
    /\ \E i \in DOMAIN payload.d :
          /\ payload.d[i][2] # None
          /\ \E n \in names : SameWord(payload.d[i][1].s, n)

LevelNames == {<<"l", "e", "v", "e", "l">>, <<"s", "e", "v", "e", "r", "i", "t", "y">>}
AppNames == {<<"a", "p", "p", "n", "a", "m", "e">>, <<"a", "p", "p", "_", "n", "a", "m", "e">>, <<"a", "p", "p", "l", "i", "c", "a", "t", "i", "o", "n">>}

\* C25: the record built for a message has Severity High if the string form
\* of its Level mentions "error" in any case, else Medium if it mentions
\* "warn", else Low; a payload without a level gives Level "Information" and
\* Severity Low, a payload without an app name gives AppName "Unknown";
\* {"Level":"Error","AppName":"Billing","Message":"timeout"} gives Severity
\* High; and a call raises only when the connection string is not set or
\* the store refused the record, never for a missing field.
C25_SeverityFromLevel ==
    enriched_log # <<>> =>
        LET level == PyStr(DictGet(enriched_log, Str(s_Level)))
            severity == DictGet(enriched_log, Str(s_Severity))
        IN /\ severity = IF Mentions(level, s_error) THEN Str(<<"H", "i", "g", "h">>)
                         ELSE IF Mentions(level, s_warn) THEN Str(<<"M", "e", "d", "i", "u", "m">>)
                         ELSE Str(<<"L", "o", "w">>)
           /\ ~HasField(Payloads[msg], LevelNames) =>
                 /\ DictGet(enriched_log, Str(s_Level)) = Str(s_Information)
                 /\ severity = Str(<<"L", "o", "w">>)
           /\ ~HasField(Payloads[msg], AppNames) => DictGet(enriched_log, Str(s_AppName)) = Str(s_Unknown)
           /\ msg = body_no_id => severity = Str(<<"H", "i", "g", "h">>)
           /\ qresult = "raised" =>
                 \/ ~COSMOS_CONN
                 \/ attempts # <<>> /\ attempts[Len(attempts)] \in {"http_error", "exception"}
           /\ LastStored => \E i \in DOMAIN store : store[i] = enriched_log

\* A payload with neither level nor app name was stored with the defaults.
C25_Witness ==
    /\ LastStored
    /\ msg = body_empty_id
    /\ \E i \in DOMAIN store :
          /\ store[i] = enriched_log
          /\ DictGet(store[i], Str(s_Level)) = Str(s_Information)
          /\ DictGet(store[i], Str(s_AppName)) = Str(s_Unknown)
          /\ DictGet(store[i], Str(s_Severity)) = Str(<<"L", "o", "w">>)

\* the id is a generated token
IsGenerated(id) ==
    /\ id.t = "str"
    /\ Len(id.s) > 10
    /\ SubSeq(id.s, 1, 10) = <<"g", "e", "n", "e", "r", "a", "t", "e", "d", "-">>

\* C26: the record built for a message has the request id of the payload as
\* its id when that is present and not empty, and a generated token
\* otherwise; a record stored for a message without a request id is added
\* to the store and replaces none, so two such messages give two records.
C26_IdFromRequestOrFresh ==
    [][/\ enriched_log' # <<>> =>
             IF msg' \in WithRequestId
             THEN IdOf(enriched_log') = RequestIds[msg'] /\ ~IsGenerated(IdOf(enriched_log'))
             ELSE IsGenerated(IdOf(enriched_log'))
       /\ (store' # store /\ msg \notin WithRequestId) =>
             /\ Len(store') = Len(store) + 1
             /\ store'[Len(store')] = enriched_log
             /\ \A i \in DOMAIN store : store'[i] = store[i]]_vars

\* Two messages without a request id were stored as two records, after a
\* message with one.
C26_Witness ==
    /\ LastStored
    /\ Len(store) = 3
    /\ ~IsGenerated(IdOf(store[1]))
    /\ IsGenerated(IdOf(store[2]))
    /\ IsGenerated(IdOf(store[3]))
    /\ DictGet(store[2], Str(s_OriginalPayload)) = DictGet(store[3], Str(s_OriginalPayload))

\* the workers whose _get_container call returned
Returned == {w \in Workers : wresult[w].end = "returned"}

\* C27: whatever the interleaving of the first _get_container calls of the
\* workers, at most one client is constructed, no call returns an unset
\* container, and all calls that return give the container of the same
\* client.
C27_ContainerConstructedOnce ==
    /\ clients <= 1
    /\ \A w \in Returned : wresult[w].handle # 0
    /\ \A v, w \in Returned : wresult[v].handle = wresult[w].handle

\* Three workers found the container unset at line 27; one constructed it
\* and the two others, after waiting for the lock, returned it from line 31.
C27_Witness ==
    /\ Returned = Workers
    /\ clients = 1
    /\ Cardinality({w \in Workers : wresult[w].line = 38}) = 1
    /\ Cardinality({w \in Workers : wresult[w].line = 31}) >= 2

\* C31: a message is never completed, its process_log_message call having
\* returned normally, while the store holds no record of it; a call that
\* did not store the record raised, so that the queue redelivers the
\* message until it is stored.
C31_CompletedOnlyWhenStored ==
    (qpc = "idle" /\ qresult = "returned") =>
        \E i \in DOMAIN store : IdOf(store[i]) = IdOf(enriched_log)

\* the records handle_message builds from the messages of the model, and
\* what the counting loop of handle_cosmos_changes does with each
Records == {Enriched[b, n] : b \in Bodies \cup PipelineBodies, n \in 0..MaxDeliveries}
ClassifiedRecords == [r \in Records |-> Classify(Dict(r))]

\* the counter the enricher's Severity stands for
KindOfSeverity(severity) ==
    CASE severity = Str(<<"H", "i", "g", "h">>) -> "error"
      [] severity = Str(<<"M", "e", "d", "i", "u", "m">>) -> "warning"
      [] severity = Str(<<"L", "o", "w">>) -> "info"
      [] OTHER -> "none"

\* C30: every record handle_message has stored is counted by
\* handle_cosmos_changes as an error if its Severity is High, as a warning
\* if it is Medium and as info if it is Low.
C30_AggregatorAgreesWithEnricher ==
    \A i \in DOMAIN store :
        ClassifiedRecords[store[i]].kind = KindOfSeverity(DictGet(store[i], Str(s_Severity)))

----------------------------------------------------------------------------
(* Properties of the change-feed trigger (SpecCosmos, SpecStatus) *)

\* the document passes the filter of line 137
RecognisedAsLog(d) ==
    LET doc == _doc_to_dict(d)
    IN IsDict(doc) /\ ~HasNonStringKey(doc) /\ LooksLikeLog(doc)

LogIndexes == {i \in DOMAIN documents : RecognisedAsLog(documents[i])}
StoreAccepts == _insight_container /\ upsert_response \in {"none", "ok"}
LastInsight == insights[Len(insights)]

\* C5: a handle_cosmos_changes call on a batch with at least one document
\* recognised as a log record, the insight store being available and
\* accepting the write, upserted exactly one insight document.
C5_OneSnapshotPerLogBatch ==
    (cresult # "none" /\ StoreAccepts /\ LogIndexes # {}) => written = 1

\* C6: a call on a batch with no document, or whose documents were all
\* skipped as non-logs, upserted nothing.
C6_EmptyBatchWritesNothing ==
    ((cresult # "none" \/ presult # "none")
        /\ \A i \in DOMAIN documents : Classified[documents[i]].kind = "skip")
        => written = 0

\* C7: a call on a batch (a list) mixing well-formed log records with
\* malformed documents, the store accepting the write, upserted the insight
\* document and its total counts every well-formed log record.
C7_MalformedNeverAborts ==
    (/\ cresult # "none"
     /\ iterable = "list"
     /\ StoreAccepts
     /\ \E i \in DOMAIN documents : documents[i] \in Malformed
     /\ \E i \in DOMAIN documents : documents[i] \in WellFormedLogs)
        => /\ written = 1
           /\ LastInsight.total_logs >= Cardinality({i \in DOMAIN documents : documents[i] \in WellFormedLogs})

\* C8: neither handle_cosmos_changes nor process_cosmos_changes ever ends by
\* raising.
C8_AggregationNeverRaises ==
    cresult # "raised" /\ presult # "raised"

\* A batch whose counting loop raised went through both functions, which
\* returned normally.
C8_Witness ==
    /\ presult = "returned"
    /\ cresult = "returned"
    /\ counts.raised

\* C9: in the insight document a call wrote, the three counters add up to
\* total_logs, total_logs is the number of documents of the batch that passed
\* the log filter, and the error rate is 0 when total_logs is 0.
C9_CountersAddUp ==
    written = 1 =>
        /\ LastInsight.error_count + LastInsight.warning_count + LastInsight.info_count
               = LastInsight.total_logs
        /\ LastInsight.total_logs = Cardinality(LogIndexes)
        /\ LastInsight.total_logs = 0 => LastInsight.error_rate_percent = 0

\* An insight document written for a batch of one skipped document and one
\* log record, counted as a warning.
C9_Witness ==
    /\ written = 1
    /\ Len(documents) = 2
    /\ Cardinality(LogIndexes) = 1
    /\ LastInsight.total_logs = 1
    /\ LastInsight.warning_count = 1

\* C10: in every insight document written, status is CRITICAL when the
\* error rate is above 30, WARNING when it is above 10 and at most 30, and
\* STABLE when it is at most 10 (rates in hundredths of a percent); so 10
\* gives STABLE, 10.01 WARNING, 30 WARNING, 31 CRITICAL and 0 STABLE.
C10_StatusFromErrorRate ==
    \A i \in DOMAIN insights :
        LET rate == insights[i].error_rate_percent
            status == insights[i].status
        IN /\ rate > 3000 => status = "CRITICAL"
           /\ (rate > 1000 /\ rate <= 3000) => status = "WARNING"
           /\ rate <= 1000 => status = "STABLE"
           /\ rate = 1000 => status = "STABLE"
           /\ rate = 1001 => status = "WARNING"
           /\ rate = 3000 => status = "WARNING"
           /\ rate = 3100 => status = "CRITICAL"
           /\ rate = 0 => status = "STABLE"

\* An insight document with an error rate of 10.01 percent and status WARNING.
C10_Witness ==
    \E i \in DOMAIN insights :
        /\ insights[i].error_rate_percent = 1001
        /\ insights[i].status = "WARNING"

\* the error records of the batch, the service of each, and per service
\* the number of its error records and the position of its first one
ErrorIndexes == {i \in DOMAIN documents : Classified[documents[i]].kind = "error"}
ServiceAt(i) == Classified[documents[i]].app_name
ErrorServices == {ServiceAt(i) : i \in ErrorIndexes}
ErrorsOf(service) == Cardinality({i \in ErrorIndexes : ServiceAt(i) = service})
FirstErrorOf(service) ==
    CHOOSE i \in ErrorIndexes :
        ServiceAt(i) = service /\ \A j \in ErrorIndexes : ServiceAt(j) = service => i <= j

\* C11: in the insight document a call wrote, top_error_service is a
\* service with the most error records in the batch and, among the services
\* tied for the most, the one whose first error record comes first; it is
\* "None" when the batch has no error record; service_error_breakdown
\* holds exactly each service with its number of error records; and
\* 4 Error records of Billing with 6 Information records give error_count 4,
\* rate 40.0, status CRITICAL and top_error_service Billing.
C11_TopErrorService ==
    written = 1 =>
        LET ins == LastInsight
            top == ins.top_error_service
            breakdown == ins.service_error_breakdown
        IN /\ ErrorServices = {} => top = Str(<<"N", "o", "n", "e">>)
           /\ ErrorServices # {} =>
                 /\ top \in ErrorServices
                 /\ \A s \in ErrorServices :
                       /\ ErrorsOf(s) <= ErrorsOf(top)
                       /\ ErrorsOf(s) = ErrorsOf(top) => FirstErrorOf(top) <= FirstErrorOf(s)
           /\ Len(breakdown) = Cardinality(ErrorServices)
           /\ {breakdown[k] : k \in DOMAIN breakdown} = {<<s, ErrorsOf(s)>> : s \in ErrorServices}
           /\ documents = batch_4_errors_6_info =>
                 /\ ins.error_count = 4
                 /\ ins.error_rate_percent = 4000
                 /\ ins.status = "CRITICAL"
                 /\ top = Str(<<"B", "i", "l", "l", "i", "n", "g">>)

\* An insight document written for a batch of four error records in which
\* two services are tied with two each; the first seen is reported.
C11_Witness ==
    /\ written = 1
    /\ Cardinality(ErrorServices) = 2
    /\ \A s \in ErrorServices : ErrorsOf(s) = 2
    /\ LastInsight.top_error_service = ServiceAt(1)

\* C24: for every document of a batch handle_cosmos_changes was called on,
\* whatever its shape, _doc_to_dict gives a mapping whose keys are all
\* strings, and for an object on which every recovery strategy fails the
\* one-field mapping {"_raw_repr": str(object)}.
C24_NormalisationGivesMapping ==
    cresult # "none" =>
        \A i \in DOMAIN documents :
            /\ IsDict(_doc_to_dict(documents[i]))
            /\ ~HasNonStringKey(_doc_to_dict(documents[i]))
            /\ (documents[i].t = "object" /\ documents[i].conv = "opaque") =>
                   _doc_to_dict(documents[i]) = Dict(<< <<Str(<<"_", "r", "a", "w", "_", "r", "e", "p", "r">>), documents[i].value>> >>)

\* the names, lower-cased, under which the triggers look up the level, the
\* message, the application name and the request id of a document
FieldSpellings ==
    {<<"l", "e", "v", "e", "l">>, <<"s", "e", "v", "e", "r", "i", "t", "y">>,
     <<"m", "e", "s", "s", "a", "g", "e">>,
     <<"a", "p", "p", "n", "a", "m", "e">>, <<"a", "p", "p", "_", "n", "a", "m", "e">>,
     <<"a", "p", "p", "l", "i", "c", "a", "t", "i", "o", "n">>,
     <<"r", "e", "q", "u", "e", "s", "t", "i", "d">>, <<"r", "e", "q", "u", "e", "s", "t", "_", "i", "d">>}

\* the normalised document has one of these fields, whatever the case of
\* its name
CarriesLogField(d) ==
    /\ IsDict(_doc_to_dict(d))
    /\ \E i \in DOMAIN _doc_to_dict(d).d :
          /\ _doc_to_dict(d).d[i][1].t = "str"
          /\ Lower(_doc_to_dict(d).d[i][1].s) \in FieldSpellings

\* C29: in a handle_cosmos_changes call on a list of documents, a document
\* is skipped exactly when it has none of the fields level, message,
\* app-name, request-id; the call does not raise on it, every document that
\* has one of them is counted as error, warning or info, and no other is.
C29_SkipsExactlyNonLogs ==
    (cresult # "none" /\ iterable = "list") =>
        /\ \A i \in DOMAIN documents :
              IF CarriesLogField(documents[i])
              THEN Classified[documents[i]].kind \in {"error", "warning", "info"}
              ELSE Classified[documents[i]].kind = "skip"
        /\ ~counts.raised
        /\ counts.error_count + counts.warning_count + counts.info_count
              = Cardinality({i \in DOMAIN documents : CarriesLogField(documents[i])})

----------------------------------------------------------------------------
(* Properties of the search history (SpecHistory) *)

\* the entries the history file holds under a category
FileEntries(c) ==
    IF history_file.kind # "json" THEN <<>>
    ELSE IF history_file.data.t = "list" THEN (IF c = "semantic" THEN history_file.data.items ELSE <<>>)
    ELSE IF history_file.data.t # "dict" THEN <<>>
    ELSE IF c \notin DOMAIN history_file.data.d THEN <<>>
    ELSE IF history_file.data.d[c].t # "list" THEN <<>>
    ELSE history_file.data.d[c].items

\* the keys of the history the file holds
FileCategories ==
    IF history_file.kind = "json" /\ history_file.data.t = "dict"
    THEN DOMAIN history_file.data.d ELSE {}

\* the last n elements of seq, all of them when it has fewer
MostRecent(seq, n) ==
    LET k == IF Len(seq) < n THEN Len(seq) ELSE n
    IN [i \in 1..k |-> seq[Len(seq) - k + i]]

\* C12: after any sequence of save_history calls on a history store that
\* started empty or absent, every category of the file holds at most 10
\* entries, which are the entries most recently appended to that category,
\* in append order; the 11th entry of a category leaves entries 2 to 11.
C12_BoundedHistory ==
    /\ \A c \in Categories \cup FileCategories :
          /\ Len(FileEntries(c)) <= 10
          /\ c \in Categories => FileEntries(c) = MostRecent(appended[c], 10)
    /\ FileCategories \subseteq Categories
    /\ \A c \in Categories :
          Len(appended[c]) = 11 => FileEntries(c) = Tail(appended[c])

\* A category to which 12 entries were appended, so that two were evicted.
C12_Witness ==
    \E c \in Categories :
        /\ Len(appended[c]) = 12
        /\ Len(FileEntries(c)) = 10
        /\ FileEntries(c)[1] = appended[c][3]

\* C13: a save_history call for an entry of one category leaves the entries
\* the file holds under every other category as they were, also when the
\* call evicts an entry of its own category.
C13_OtherCategoriesUnchanged ==
    [][entry' = <<>> \/
       \A c \in Categories \cup FileCategories \cup FileCategories' :
           c # QueryTypeOf(entry'[1]) => FileEntries(c)' = FileEntries(c)]_vars

\* The 11th entry of the semantic category was saved, evicting the first,
\* while the file holds entries of service_level.
C13_Witness ==
    /\ entry # <<>>
    /\ QueryTypeOf(entry[1]) = "semantic"
    /\ Len(appended["semantic"]) = 11
    /\ FileEntries("semantic") = Tail(appended["semantic"])
    /\ FileEntries("service_level") # <<>>

\* the save_history call of the thread rewrote the file
Wrote(t) ==
    \E i \in DOMAIN appended[QueryTypeOf(save_local[t].entry)] :
        appended[QueryTypeOf(save_local[t].entry)][i] = save_local[t].entry

\* C32: when the save_history calls of concurrent searches have all ended,
\* each having rewritten the file, the history file holds the entry of each
\* of them under its category.
C32_ConcurrentAppendsKept ==
    (\A t \in Savers : save_pc[t] = "done" /\ Wrote(t)) =>
        \A t \in Savers :
            \E i \in DOMAIN FileEntriesOf(history_file, QueryTypeOf(save_local[t].entry)) :
                FileEntriesOf(history_file, QueryTypeOf(save_local[t].entry))[i] = save_local[t].entry

----------------------------------------------------------------------------
(* Properties of the cache (SpecCache) *)

\* C15: an unforced refresh_cache call made less than 10 seconds after the
\* last refresh fetches nothing, leaves the cache as it was and returns it;
\* a forced call, a call 10 seconds or more after the last refresh and the
\* first call fetch once, replace logs and insights by what was fetched,
\* stamp the time of the call and return the new cache.
C15_FreshnessWindow ==
    rcall # <<>> =>
        LET r == rcall[1]
            within == /\ ~r.force
                      /\ r.before.last_refresh # <<>>
                      /\ r.now - r.before.last_refresh[1] < 10
        IN /\ within =>
                 /\ r.fetches = 0
                 /\ CACHE = r.before
                 /\ r.returned = <<r.before>>
           /\ ~within =>
                 /\ r.fetches = 1
                 /\ CACHE.last_refresh = <<r.now>>
                 /\ r.returned = <<CACHE>>
                 /\ r.outcome = "ok" => CACHE.logs = r.logs /\ CACHE.insights = r.snapshots

\* An unforced call 9 seconds after the last refresh, the store having
\* grown since: the cache still holds the older, shorter list of logs.
C15_Witness ==
    /\ rcall # <<>>
    /\ ~rcall[1].force
    /\ rcall[1].fetches = 0
    /\ rcall[1].now - CACHE.last_refresh[1] = 9
    /\ Len(CACHE.logs) < Len(logs_container)

\* C16: when one of the two store queries of a refresh fails, nothing is
\* raised: refresh_cache returns a cache with no logs, no insights and the
\* time of the call, which is the cache from then on.
C16_FetchFailureGivesEmpty ==
    (rcall # <<>> /\ rcall[1].outcome \in {"logs_failed", "insights_failed"}) =>
        LET r == rcall[1]
            empty == [logs |-> <<>>, insights |-> <<>>, last_refresh |-> <<r.now>>]
        IN /\ r.end = "returned"
           /\ r.returned = <<empty>>
           /\ CACHE = empty

\* The insights query failed after the logs query had given a record, on a
\* cache that held a record.
C16_Witness ==
    /\ rcall # <<>>
    /\ rcall[1].outcome = "insights_failed"
    /\ rcall[1].logs # <<>>
    /\ rcall[1].before.logs # <<>>
    /\ CACHE.logs = <<>>

----------------------------------------------------------------------------
(* Properties of intelligent_search (SpecSearch, SpecDispatch) *)

\* the call returned a result
Answered == scall # <<>> /\ scall[1].end = "returned"

\* C14: when an intelligent_search call returns its result, the result is
\* recorded under the category of the strategy that answered and is the
\* newest entry of that category in the history file.
C14_AnsweredQueryIsRecorded ==
    Answered =>
        /\ FileEntries(scall[1].strategy) # <<>>
        /\ FileEntries(scall[1].strategy)[Len(FileEntries(scall[1].strategy))] = scall[1].returned[1]

\* C17: a query that mentions "error", "service" or "critical" is answered
\* by the service-level analysis whatever else it mentions; one that
\* mentions none of them but "system", "stable", "health" or "trend" by the
\* system-health analysis; every other query by the similarity fallback.
C17_DispatchPrecedence ==
    scall # <<>> =>
        LET query == scall[1].query
            service == Mentions(query, <<"e", "r", "r", "o", "r">>) \/ Mentions(query, <<"s", "e", "r", "v", "i", "c", "e">>) \/ Mentions(query, <<"c", "r", "i", "t", "i", "c", "a", "l">>)
            health == \/ Mentions(query, <<"s", "y", "s", "t", "e", "m">>) \/ Mentions(query, <<"s", "t", "a", "b", "l", "e">>)
                      \/ Mentions(query, <<"h", "e", "a", "l", "t", "h">>) \/ Mentions(query, <<"t", "r", "e", "n", "d">>)
        IN /\ service => scall[1].strategy = "service_level"
           /\ (~service /\ health) => scall[1].strategy = "system_health"
           /\ (~service /\ ~health) => scall[1].strategy = "semantic"
           /\ (Mentions(query, <<"e", "r", "r", "o", "r">>) /\ Mentions(query, <<"s", "y", "s", "t", "e", "m">>)) => scall[1].strategy = "service_level"

\* A query that mentions both "system" and "error", in that order, was
\* answered by the service-level analysis.
C17_Witness ==
    /\ Answered
    /\ scall[1].query = <<"S", "y", "s", "t", "e", "m">> \o <<" ">> \o <<"E", "r", "r", "o", "r">>
    /\ scall[1].strategy = "service_level"
    /\ scall[1].returned[1].type = "service_level"

\* the record is a log record of level error or critical
IsFailureLog(l) ==
    /\ "Level" \in DOMAIN l
    /\ SameWord(l.Level, <<"e", "r", "r", "o", "r">>) \/ SameWord(l.Level, <<"c", "r", "i", "t", "i", "c", "a", "l">>)

\* the query mentions a failure keyword
IsFailureQuery(query) ==
    \E word \in {<<"f", "a", "i", "l">>, <<"f", "a", "i", "l", "e", "d">>, <<"f", "a", "i", "l", "u", "r", "e">>, <<"e", "r", "r", "o", "r">>, <<"c", "r", "i", "t", "i", "c", "a", "l">>, <<"i", "s", "s", "u", "e">>, <<"c", "r", "a", "s", "h">>} :
        Mentions(query, word)

\* C18: in the similarity fallback, when the query mentions a failure
\* keyword and the cached logs hold a record of level error or critical,
\* the candidates are those records and every match returned is one of
\* them; otherwise the candidates are the cached logs followed by the
\* cached snapshots.
C18_FailureQueriesRankErrorLogs ==
    (scall # <<>> /\ scall[1].strategy = "semantic") =>
        IF IsFailureQuery(scall[1].query) /\ \E i \in DOMAIN CACHE.logs : IsFailureLog(CACHE.logs[i])
        THEN /\ scall[1].combined = SelectSeq(CACHE.logs, IsFailureLog)
             /\ Answered =>
                   \A k \in DOMAIN scall[1].returned[1].semantic_matches :
                       LET match == scall[1].returned[1].semantic_matches[k]
                       IN /\ SameWord(match.Level, <<"e", "r", "r", "o", "r">>) \/ SameWord(match.Level, <<"c", "r", "i", "t", "i", "c", "a", "l">>)
                          /\ \E i \in DOMAIN CACHE.logs :
                                /\ IsFailureLog(CACHE.logs[i])
                                /\ match.AppName = CACHE.logs[i].AppName
                                /\ match.Message = CACHE.logs[i].Message
        ELSE scall[1].combined = CACHE.logs \o CACHE.insights

\* "payment failed" asked of logs holding an Error and an Information
\* record about payments and of a snapshot: one match, the Error record.
C18_Witness ==
    /\ Answered
    /\ scall[1].query = <<"p", "a", "y", "m", "e", "n", "t", " ", "f", "a", "i", "l", "e", "d">>
    /\ \E i \in DOMAIN CACHE.logs : CACHE.logs[i].Level = s_Information
    /\ CACHE.insights # <<>>
    /\ scall[1].returned[1].count = 1
    /\ scall[1].returned[1].semantic_matches[1].Level = <<"E", "r", "r", "o", "r">>

\* the refresh of the call fetched the store
Fetched == rcall # <<>> /\ rcall[1].outcome = "ok"

LastThree ==
    {R \in SUBSET DOMAIN insights_container :
        /\ Cardinality(R) = (IF Len(insights_container) < 3 THEN Len(insights_container) ELSE 3)
        /\ \A i \in R, j \in DOMAIN insights_container \ R :
              insights_container[j]._ts <= insights_container[i]._ts}

CriticalIndexes == {i \in DOMAIN insights_container : insights_container[i].status = "CRITICAL"}

\* h hundredths of an hour is the average, to the nearest hundredth, of the
\* gaps between consecutive snapshots of I in order of time: the gaps add
\* up to the time between the first and the last
IsAverageGap(h, I) ==
    LET n == Cardinality(I) - 1
        first == CHOOSE i \in I : \A j \in I : insights_container[i].timestamp <= insights_container[j].timestamp
        last == CHOOSE i \in I : \A j \in I : insights_container[j].timestamp <= insights_container[i].timestamp
        seconds == insights_container[last].timestamp - insights_container[first].timestamp
    IN /\ h * 36 * n - seconds <= 18 * n
       /\ seconds - h * 36 * n <= 18 * n

\* C21: in a system-health result, mean_time_between_failures_hrs is "N/A"
\* when the store holds fewer than two CRITICAL snapshots, and otherwise is
\* a number, the average in hours of the gaps between consecutive CRITICAL
\* snapshots, also when that average is 0.
C21_MtbfIsAverageGap ==
    (/\ Answered /\ Fetched
     /\ scall[1].strategy = "system_health"
     /\ "mean_time_between_failures_hrs" \in DOMAIN scall[1].returned[1]) =>
        LET mtbf == scall[1].returned[1].mean_time_between_failures_hrs
        IN /\ Cardinality(CriticalIndexes) < 2 => mtbf = <<>>
           /\ Cardinality(CriticalIndexes) >= 2 =>
                 /\ mtbf # <<>>
                 /\ IsAverageGap(mtbf[1], CriticalIndexes)

\* C23: an intelligent_search call never ends with an exception, whether
\* the embedding model is loaded or not and whether the store holds data or
\* not: a similarity-fallback query over a store that holds records, with
\* no model loaded, returns a result.
C23_SearchNeverRaises ==
    scall # <<>> =>
        /\ scall[1].end = "returned"
        /\ scall[1].returned # <<>>

\* the threads whose intelligent_search call has read logs and insights
Searched == {t \in Threads : tlocal[t].kind = "intelligent_search" /\ tpc[t] = "done"}

\* C28: whatever the interleaving of refresh_cache and intelligent_search
\* calls, the logs and the insights a search works on are the two lists of
\* one fetch, those of the dict refresh_cache returned to it.
C28_SnapshotReadWhole ==
    \A t \in Searched :
        /\ tlocal[t].read_logs.fetch = tlocal[t].read_insights.fetch
        /\ tlocal[t].read_logs = heap[tlocal[t].data].logs
        /\ tlocal[t].read_insights = heap[tlocal[t].data].insights

\* A search completed although CACHE was rebound by another thread, to a
\* dict of other content, after the search got its dict and before it read
\* the insights.
C28_Witness ==
    \E t \in Searched :
        /\ tlocal[t].seen # tlocal[t].data
        /\ Plain(heap[tlocal[t].seen]).logs # tlocal[t].read_logs.items
        /\ Plain(heap[tlocal[t].seen]).insights # tlocal[t].read_insights.items

----------------------------------------------------------------------------
(* Properties of the API endpoints (SpecHealth) *)

\* a relative time: digits followed by h or d
IsRelativeTime(since) ==
    /\ Len(since) >= 2
    /\ since[Len(since)] \in {"h", "d"}
    /\ \A i \in 1..(Len(since) - 1) : since[i] \in {"0", "1", "2", "3", "4", "5", "6", "7", "8", "9"}

\* an ISO date: YYYY-MM-DD with a month of 01 to 12 and a day of 01 to 31
IsIsoDate(since) ==
    /\ Len(since) = 10
    /\ \A i \in {1, 2, 3, 4, 6, 7, 9, 10} : since[i] \in {"0", "1", "2", "3", "4", "5", "6", "7", "8", "9"}
    /\ since[5] = "-" /\ since[8] = "-"
    /\ <<since[6], since[7]>> \in {<<"0", "1">>, <<"0", "2">>, <<"0", "3">>, <<"0", "4">>, <<"0", "5">>, <<"0", "6">>,
                                   <<"0", "7">>, <<"0", "8">>, <<"0", "9">>, <<"1", "0">>, <<"1", "1">>, <<"1", "2">>}
    /\ since[9] \in {"0", "1", "2", "3"}
    /\ <<since[9], since[10]>> \notin {<<"0", "0">>, <<"3", "2">>, <<"3", "3">>, <<"3", "4">>, <<"3", "5">>,
                                       <<"3", "6">>, <<"3", "7">>, <<"3", "8">>, <<"3", "9">>}

\* C22: a GET /health request whose since is given and is neither an ISO
\* timestamp nor a relative time such as 2h or 1d (xh, yesterday) is
\* answered with status 400, not with status 500.
C22_MalformedSinceIsClientError ==
    (/\ hcall # <<>>
     /\ hcall[1].outcome = "ok"
     /\ hcall[1].since # <<>>
     /\ ~IsRelativeTime(hcall[1].since)
     /\ ~IsIsoDate(hcall[1].since)) => hcall[1].status_code = 400
-----------------------------------------------------------------------------
(* Properties of the stores between the triggers and the query engine
   (SpecPipeline) *)

\* C33: every record handle_message has stored with a string Level passes
\* the error test of the service-level analysis and of the failure filter
\* of the similarity fallback exactly when the enricher gave it Severity
\* High and the aggregator counts it as an error.
C33_ErrorTestsAgree ==
    \A i \in DOMAIN store :
        LevelValue(store[i]).t = "str" =>
            (IsErrorRecord(store[i]) <=>
                /\ DictGet(store[i], Str(s_Severity)) = Str(<<"H", "i", "g", "h">>)
                /\ ClassifiedRecords[store[i]].kind = "error")

\* C34: a service-level or system-health intelligent_search call on the
\* records handle_message stored and the snapshots handle_cosmos_changes
\* stored returns a result.
C34_RuleBasedReturnsOnPipelineData ==
    (scall # <<>> /\ scall[1].strategy \in {"service_level", "system_health"}) =>
        scall[1].end = "returned"

====
